---- MODULE Spec2Model ----
(***************************************************************************)
(* Credential and trust layer of claude-code-containers:                   *)
(*   - verifyGitHubSignature and handleGitHubWebhook (handlers/github_webhook) *)
(*   - GitHubAppConfigDO, one instance per partition key (src/index.ts)    *)
(*   - encrypt / decrypt / generateInstallationToken (crypto)              *)
(*                                                                         *)
(* Conventions.  A JavaScript string is a sequence of one-character        *)
(* strings, a byte string a sequence of 0..255.  null and undefined are    *)
(* NULL for an identifier, Absent for a string, the empty result array for *)
(* a table row.  An ISO-8601 timestamp is [sec, ms]: the seconds since the epoch  *)
(* (the fixed-width "YYYY-MM-DDTHH:mm:ss" part) and the milliseconds       *)
(* (".mmm"), or NoMs when the string has no fraction ("...ssZ").           *)
(* Time is in milliseconds, as Date.getTime() gives it.                    *)
(***************************************************************************)
EXTENDS Integers, Sequences, FiniteSets, TLC

VARIABLES
    sigIn,      \* verifyGitHubSignature: the arguments of the call under test
    sigOut,     \* verifyGitHubSignature: <<what the call returned>>, <<>> before it
    config,     \* per partition: the github_app_config row (id = 1) or NULL
    tokens,     \* per partition: the installation_tokens table, in rowid order
    now,        \* the wall clock, ms
    calls,      \* per caller: a getInstallationToken call and its position
    issued,     \* number of tokens the remote API has minted so far
    started,    \* number of getInstallationToken calls started so far
    claude,     \* the claude_config table of the "claude-config" partition
    wh,         \* handleGitHubWebhook: the request being handled and its position
    cf,         \* containerFetch: the call being made and its position
    pt,         \* GitHubAppConfigDO.fetch: the requests in progress on the partitions
    cr,         \* encrypt / decrypt: the text under test and what became of it
    gst         \* handleGitHubStatus: the last request and its response

vars == <<sigIn, sigOut, config, tokens, now, calls, issued, started, claude, wh, cf, pt, cr, gst>>

NULL == "null"
\* A string that is null or undefined (no string has a many-character element)
Absent == <<NULL>>

(***************************************************************************)
(* Strings                                                                 *)
(***************************************************************************)
RECURSIVE IndexOfFrom(_, _, _)
\* String.prototype.indexOf: the first position >= i where pat occurs in s, 0 if none
IndexOfFrom(s, pat, i) ==
    IF i + Len(pat) - 1 > Len(s) THEN 0
    ELSE IF SubSeq(s, i, i + Len(pat) - 1) = pat THEN i
    ELSE IndexOfFrom(s, pat, i + 1)

\* String.prototype.startsWith
StartsWith(s, pat) ==
    Len(s) >= Len(pat) /\ SubSeq(s, 1, Len(pat)) = pat

\* String.prototype.replace with a string pattern: the first occurrence only
ReplaceFirst(s, pat, by) ==
    LET i == IndexOfFrom(s, pat, 1)
    IN  IF i = 0 THEN s
        ELSE SubSeq(s, 1, i - 1) \o by \o SubSeq(s, i + Len(pat), Len(s))

RECURSIVE Concat(_)
\* Array.prototype.join(''): the concatenation of a sequence of strings
Concat(ss) == IF ss = <<>> THEN <<>> ELSE Head(ss) \o Concat(Tail(ss))

(***************************************************************************)
(* verifyGitHubSignature                                                    *)
(***************************************************************************)
HexDigits == <<"0", "1", "2", "3", "4", "5", "6", "7",
               "8", "9", "a", "b", "c", "d", "e", "f">>

\* Number.prototype.toString(16): no leading zero
ToString16(byte) ==
    IF byte < 16 THEN <<HexDigits[byte + 1]>>
    ELSE <<HexDigits[(byte \div 16) + 1], HexDigits[(byte % 16) + 1]>>

\* String.prototype.padStart(2, '0')
PadStart2(s) == IF Len(s) >= 2 THEN s ELSE <<"0">> \o s

\* byte => byte.toString(16).padStart(2, '0')
ByteToHex(byte) == PadStart2(ToString16(byte))

\* Array.from(hashArray).map(...).join('')
HexOf(bytes) == Concat([i \in 1..Len(bytes) |-> ByteToHex(bytes[i])])

RECURSIVE Code(_)
\* The number a byte string spells in base 4 (the model's bytes are 1..3)
Code(bytes) == IF bytes = <<>> THEN 0 ELSE Code(Tail(bytes)) * 4 + Head(bytes)

\* Length of the modelled digest in bytes (SHA-256 gives 32)
DigestLen == 2

\* crypto.subtle.sign('HMAC', key, message): the keyed hash is a black box of
\* the platform.  It is modelled as a function of (key, message) that has no
\* collision on the model's keys and messages (multiplication by an odd number
\* is a bijection modulo 256), with digest bytes below and above 16.
HmacSha256(key, message) ==
    LET h == ((Code(key) * 16 + Code(message)) * 37 + 17) % 256
    IN  [i \in 1..DigestLen |-> (h * (2 * i - 1)) % 256]

SigPrefix == <<"s", "h", "a", "2", "5", "6", "=">>

\* A mutant of verifyGitHubSignature: the prefix test is dropped
verifyNoPrefixCheck(payload, signature, secret) ==
    /\ signature # Absent
    /\ ReplaceFirst(signature, SigPrefix, <<>>) = HexOf(HmacSha256(secret, payload))

verifyGitHubSignature(payload, signature, secret) ==
    IF signature = Absent \/ signature = <<>> \/ ~StartsWith(signature, SigPrefix)
    THEN FALSE
    ELSE LET sigHex == ReplaceFirst(signature, SigPrefix, <<>>)
             computedHex == HexOf(HmacSha256(secret, payload))
         IN  sigHex = computedHex

\* The lowercase hex spelling of a digest, two digits a byte, as GitHub
\* writes it
GitHubHex(bytes) ==
    Concat([i \in 1..Len(bytes) |->
               <<HexDigits[(bytes[i] \div 16) + 1], HexDigits[(bytes[i] % 16) + 1]>>])

\* What GitHub sends in x-hub-signature-256 for a payload under a secret
SignatureOf(payload, secret) == SigPrefix \o GitHubHex(HmacSha256(secret, payload))

\* Raw payload bodies and webhook secrets of the model
Payloads == {<<1>>, <<2>>, <<1, 2>>}
Secrets == {<<1>>, <<3>>, <<1, 3>>}

\* Upper-case spelling of a hex string
UpperHex(s) ==
    [i \in 1..Len(s) |->
        CASE s[i] = "a" -> "A" [] s[i] = "b" -> "B" [] s[i] = "c" -> "C"
          [] s[i] = "d" -> "D" [] s[i] = "e" -> "E" [] s[i] = "f" -> "F"
          [] OTHER -> s[i]]

\* Signature headers tried: absent, empty, the right one for every payload and
\* secret, and damaged forms of it
SigHeaders ==
    {Absent, <<>>, SigPrefix}
    \cup { SignatureOf(p, s) : p \in Payloads, s \in Secrets }
    \cup { GitHubHex(HmacSha256(s, p)) : p \in Payloads, s \in Secrets }
    \cup { <<"s", "h", "a", "1", "=">> \o GitHubHex(HmacSha256(s, p)) : p \in Payloads, s \in Secrets }
    \cup { SigPrefix \o UpperHex(GitHubHex(HmacSha256(s, p))) : p \in Payloads, s \in Secrets }
    \cup { SigPrefix \o SignatureOf(p, s) : p \in Payloads, s \in Secrets }
    \cup { SignatureOf(p, s) \o <<"0">> : p \in Payloads, s \in Secrets }
    \cup { GitHubHex(HmacSha256(s, p)) \o SigPrefix : p \in Payloads, s \in Secrets }

NoSigInput == [payload |-> <<>>, header |-> Absent, secret |-> <<>>]

SigInit ==
    /\ sigIn \in [payload : Payloads, header : SigHeaders, secret : Secrets]
    /\ sigOut = <<>>

\* One call of verifyGitHubSignature on the chosen arguments
SigVerify ==
    /\ sigOut = <<>>
    /\ sigOut' = <<verifyGitHubSignature(sigIn.payload, sigIn.header, sigIn.secret)>>
    /\ UNCHANGED <<sigIn, config, tokens, now, calls, issued, started, claude, wh, cf, pt, cr, gst>>

(***************************************************************************)
(* Timestamps                                                              *)
(***************************************************************************)
\* The ms field of a timestamp string that has no fraction ("...T00:05:00Z")
NoMs == -1
\* A timestamp column that is null
NoTime == [sec |-> -1, ms |-> NoMs]

\* Date.prototype.toISOString: always with three fraction digits
toISOString(t) == [sec |-> t \div 1000, ms |-> t % 1000]

\* new Date(string).getTime()
DateParse(iso) == iso.sec * 1000 + (IF iso.ms = NoMs THEN 0 ELSE iso.ms)

\* The character codes of what follows the seconds in the string:
\* ".mmmZ" or "Z" ('.' is 46, '0' is 48, 'Z' is 90)
IsoTail(iso) ==
    IF iso.ms = NoMs THEN <<90>>
    ELSE <<46, 48 + (iso.ms \div 100), 48 + ((iso.ms \div 10) % 10), 48 + (iso.ms % 10), 90>>

RECURSIVE LexLess(_, _)
\* Binary text order, as SQLite compares TEXT values
LexLess(a, b) ==
    IF b = <<>> THEN FALSE
    ELSE IF a = <<>> THEN TRUE
    ELSE IF Head(a) # Head(b) THEN Head(a) < Head(b)
    ELSE LexLess(Tail(a), Tail(b))

\* a < b on TEXT columns holding timestamps.  The part up to the seconds has
\* a fixed width, so its text order is the order of the seconds.
SqlTextLess(a, b) ==
    \/ a.sec < b.sec
    \/ a.sec = b.sec /\ LexLess(IsoTail(a), IsoTail(b))

(***************************************************************************)
(* encrypt / decrypt (crypto)                                              *)
(***************************************************************************)
\* Length of the AES-GCM nonce
IvLen == 12
\* Length of the modelled authentication tag in bytes (AES-GCM gives 16)
TagLen == 1
\* The '=' of base64, after the 64 digits 0..63
B64Pad == 64
\* What a failed decrypt leaves its caller with (an exception)
DecryptError == <<-1>>

RECURSIVE SumSeq(_)
SumSeq(s) == IF s = <<>> THEN 0 ELSE Head(s) + SumSeq(Tail(s))

\* The authentication tag of data under a nonce
AesGcmTag(iv, data) ==
    [j \in 1..TagLen |-> (SumSeq(data) * 3 + iv[1] * 5 + 17 * j) % 256]

\* crypto.subtle.encrypt({name: 'AES-GCM', iv}, key, data) under the one static
\* key: ciphertext of the length of the data, then the tag.  The cipher is a
\* black box of the platform; the model keeps that it is a bijection of the
\* data for each nonce and that the tag depends on nonce and data.
AesGcmEncrypt(iv, data) ==
    [i \in 1..Len(data) |-> (data[i] + iv[1] * 7 + i * 13 + 101) % 256]
    \o AesGcmTag(iv, data)

\* crypto.subtle.decrypt: the data, or DecryptError when the input is shorter
\* than a tag or the tag does not match
AesGcmDecrypt(iv, encrypted) ==
    IF Len(encrypted) < TagLen \/ Len(iv) = 0 THEN DecryptError
    ELSE LET n == Len(encrypted) - TagLen
             data == [i \in 1..n |-> (encrypted[i] + 256 * 8 - (iv[1] * 7 + i * 13 + 101)) % 256]
         IN  IF SubSeq(encrypted, n + 1, n + TagLen) = AesGcmTag(iv, data)
             THEN data ELSE DecryptError

RECURSIVE Btoa(_)
\* btoa(String.fromCharCode(...bytes)): base64, a digit being its value 0..63
Btoa(b) ==
    IF Len(b) = 0 THEN <<>>
    ELSE IF Len(b) = 1 THEN <<b[1] \div 4, (b[1] % 4) * 16, B64Pad, B64Pad>>
    ELSE IF Len(b) = 2
         THEN <<b[1] \div 4, (b[1] % 4) * 16 + b[2] \div 16, (b[2] % 16) * 4, B64Pad>>
    ELSE <<b[1] \div 4, (b[1] % 4) * 16 + b[2] \div 16,
           (b[2] % 16) * 4 + b[3] \div 64, b[3] % 64>> \o Btoa(SubSeq(b, 4, Len(b)))

RECURSIVE AtobDigits(_)
\* The bytes of a run of base64 digits with the padding removed
AtobDigits(d) ==
    IF Len(d) < 2 THEN <<>>
    ELSE IF Len(d) = 2 THEN <<d[1] * 4 + d[2] \div 16>>
    ELSE IF Len(d) = 3 THEN <<d[1] * 4 + d[2] \div 16, (d[2] % 16) * 16 + d[3] \div 4>>
    ELSE <<d[1] * 4 + d[2] \div 16, (d[2] % 16) * 16 + d[3] \div 4, (d[3] % 4) * 64 + d[4]>>
         \o AtobDigits(SubSeq(d, 5, Len(d)))

\* atob(text).split('').map(c => c.charCodeAt(0)): DecryptError (an
\* InvalidCharacterError) when the text is not base64
Atob(text) ==
    LET n == Len(text)
        pads == IF n % 4 = 0 /\ n >= 2 /\ text[n] = B64Pad
                THEN (IF text[n - 1] = B64Pad THEN 2 ELSE 1) ELSE 0
        d == SubSeq(text, 1, n - pads)
    IN  IF Len(d) % 4 = 1 \/ \E i \in 1..Len(d) : d[i] \notin 0..63
        THEN DecryptError
        ELSE AtobDigits(d)

RECURSIVE TextEncode(_)
\* new TextEncoder().encode(text): the UTF-8 bytes of a string, which is a
\* sequence of UTF-16 code units.  A surrogate pair is one code point of four
\* bytes; a surrogate on its own is encoded as U+FFFD.
TextEncode(s) ==
    IF s = <<>> THEN <<>>
    ELSE LET c == Head(s)
         IN  IF c < 128 THEN <<c>> \o TextEncode(Tail(s))
             ELSE IF c < 2048
             THEN <<192 + (c \div 64), 128 + (c % 64)>> \o TextEncode(Tail(s))
             ELSE IF c \in 55296..56319 /\ Len(s) > 1 /\ s[2] \in 56320..57343
             THEN LET cp == 65536 + (c - 55296) * 1024 + (s[2] - 56320)
                  IN  <<240 + (cp \div 262144), 128 + ((cp \div 4096) % 64),
                        128 + ((cp \div 64) % 64), 128 + (cp % 64)>>
                      \o TextEncode(Tail(Tail(s)))
             ELSE IF c \in 55296..57343
             THEN <<239, 191, 189>> \o TextEncode(Tail(s))
             ELSE <<224 + (c \div 4096), 128 + ((c \div 64) % 64), 128 + (c % 64)>>
                  \o TextEncode(Tail(s))

RECURSIVE Utf8Decode(_)
\* The code units of UTF-8 bytes (U+FFFD for a byte that starts no sequence)
Utf8Decode(b) ==
    IF b = <<>> THEN <<>>
    ELSE IF b[1] < 128 THEN <<b[1]>> \o Utf8Decode(Tail(b))
    ELSE IF b[1] \in 192..223 /\ Len(b) >= 2
    THEN <<(b[1] - 192) * 64 + (b[2] - 128)>> \o Utf8Decode(SubSeq(b, 3, Len(b)))
    ELSE IF b[1] \in 224..239 /\ Len(b) >= 3
    THEN <<(b[1] - 224) * 4096 + (b[2] - 128) * 64 + (b[3] - 128)>>
         \o Utf8Decode(SubSeq(b, 4, Len(b)))
    ELSE IF b[1] \in 240..247 /\ Len(b) >= 4
    THEN LET cp == (b[1] - 240) * 262144 + (b[2] - 128) * 4096
                   + (b[3] - 128) * 64 + (b[4] - 128) - 65536
         IN  <<55296 + (cp \div 1024), 56320 + (cp % 1024)>>
             \o Utf8Decode(SubSeq(b, 5, Len(b)))
    ELSE <<65533>> \o Utf8Decode(Tail(b))

\* A mutant of TextDecode: a decoder made with {ignoreBOM: true}
TextDecodeKeepBOM(b) == Utf8Decode(b)

\* new TextDecoder().decode(bytes): the string of the bytes, without the byte
\* order mark U+FEFF when the bytes start with one (ignoreBOM is false)
TextDecode(b) ==
    LET s == Utf8Decode(b)
    IN  IF s # <<>> /\ s[1] = 65279 THEN Tail(s) ELSE s

\* encrypt(text) with the nonce crypto.getRandomValues drew
encrypt(text, iv) == Btoa(iv \o AesGcmEncrypt(iv, TextEncode(text)))

\* decrypt(encryptedText): the plaintext, or DecryptError when it throws
decrypt(encryptedText) ==
    LET combined == Atob(encryptedText)
    IN  IF combined = DecryptError THEN DecryptError
        ELSE LET decrypted == AesGcmDecrypt(SubSeq(combined, 1, IvLen),
                                            SubSeq(combined, IvLen + 1, Len(combined)))
             IN  IF decrypted = DecryptError THEN DecryptError
                 ELSE TextDecode(decrypted)

\* No text under test
NoText == [pc |-> "idle", text |-> <<>>, iv |-> <<>>, encrypted |-> <<>>,
           decrypted |-> <<>>]

\* The strings under test: up to MaxTextLen code units out of 'A', e with an
\* acute accent, the euro sign, the byte order mark, and the two halves of a
\* surrogate pair
MaxTextLen == 3
CodeUnits == {65, 233, 8364, 65279, 55357, 56832}
Texts == UNION {[1..n -> CodeUnits] : n \in 0..MaxTextLen}

\* encrypt is called with a text
CrEncrypt ==
    /\ cr.pc = "text"
    /\ cr' = [cr EXCEPT !.pc = "encrypted", !.encrypted = encrypt(cr.text, cr.iv)]
    /\ UNCHANGED <<sigIn, sigOut, config, tokens, now, calls, issued, started, claude, wh, cf, pt, gst>>

\* decrypt is called with what encrypt returned
CrDecrypt ==
    /\ cr.pc = "encrypted"
    /\ cr' = [cr EXCEPT !.pc = "decrypted", !.decrypted = decrypt(cr.encrypted)]
    /\ UNCHANGED <<sigIn, sigOut, config, tokens, now, calls, issued, started, claude, wh, cf, pt, gst>>

\* The nonces crypto.getRandomValues draws in the model
Ivs == {[i \in 1..IvLen |-> 9], [i \in 1..IvLen |-> 200]}

(***************************************************************************)
(* GitHubAppConfigDO: the github_app_config table                          *)
(***************************************************************************)
\* JavaScript truthiness of an identifier string
Falsy(x) == x = NULL \/ x = ""

\* A mutant of InsertOrReplace: a plain INSERT
InsertOnly(table, row) == table \o <<row>>

\* INSERT OR REPLACE INTO ... (id, ...): a row with the same id is replaced
InsertOrReplace(table, row) ==
    SelectSeq(table, LAMBDA r : r.id # row.id) \o <<row>>

\* storeAppConfig / storeAppConfigSQLite: the row with id 1, installation_id
\* and last_webhook_at null when falsy, webhook_count 0 when falsy (the
\* updated_at column, which nothing reads, is left out)
storeAppConfigSQLite(table, cfg) ==
    InsertOrReplace(table,
        [id |-> 1,
         appId |-> cfg.appId,
         privateKey |-> cfg.privateKey,
         webhookSecret |-> cfg.webhookSecret,
         installationId |-> IF Falsy(cfg.installationId) THEN NULL ELSE cfg.installationId,
         owner |-> cfg.owner,
         permissions |-> cfg.permissions,
         events |-> cfg.events,
         repositories |-> cfg.repositories,
         createdAt |-> cfg.createdAt,
         lastWebhookAt |-> cfg.lastWebhookAt,
         webhookCount |-> cfg.webhookCount])

\* getAppConfig: SELECT * FROM github_app_config WHERE id = 1 LIMIT 1, as the
\* result array: empty (the method returns null) or the one config object
getAppConfig(table) ==
    LET results == SelectSeq(table, LAMBDA r : r.id = 1)
    IN  IF Len(results) = 0 THEN <<>>
        ELSE <<[appId |-> results[1].appId,
                privateKey |-> results[1].privateKey,
                webhookSecret |-> results[1].webhookSecret,
                installationId |-> IF Falsy(results[1].installationId)
                                   THEN NULL ELSE results[1].installationId,
                owner |-> results[1].owner,
                permissions |-> results[1].permissions,
                events |-> results[1].events,
                repositories |-> results[1].repositories,
                createdAt |-> results[1].createdAt,
                lastWebhookAt |-> results[1].lastWebhookAt,
                webhookCount |-> results[1].webhookCount]>>

\* A mutant of updateInstallation: the webhook statistics are not carried over
updateInstallationFresh(table, installationId, repositories) ==
    LET cfg == getAppConfig(table)
    IN  IF cfg = <<>> THEN table
        ELSE storeAppConfigSQLite(table,
                [cfg[1] EXCEPT !.installationId = installationId,
                               !.repositories = repositories,
                               !.lastWebhookAt = NoTime,
                               !.webhookCount = 0])

\* updateInstallation
updateInstallation(table, installationId, repositories) ==
    LET cfg == getAppConfig(table)
    IN  IF cfg = <<>> THEN table
        ELSE storeAppConfigSQLite(table,
                [cfg[1] EXCEPT !.installationId = installationId,
                               !.repositories = repositories])

\* A mutant of logWebhook: the count goes up, the time is not written
logWebhookNoTimestamp(table, t) ==
    LET cfg == getAppConfig(table)
    IN  IF cfg = <<>> THEN table
        ELSE storeAppConfigSQLite(table, [cfg[1] EXCEPT !.webhookCount = @ + 1])

\* logWebhook at time t
logWebhook(table, t) ==
    LET cfg == getAppConfig(table)
    IN  IF cfg = <<>> THEN table
        ELSE storeAppConfigSQLite(table,
                [cfg[1] EXCEPT !.lastWebhookAt = toISOString(t),
                               !.webhookCount = @ + 1])

\* A mutant of addRepository: the repository is pushed whether or not its id
\* is there
addRepositoryNoCheck(table, repo) ==
    LET cfg == getAppConfig(table)
    IN  IF cfg = <<>> THEN table
        ELSE storeAppConfigSQLite(table,
                [cfg[1] EXCEPT !.repositories = Append(@, repo)])

\* addRepository
addRepository(table, repo) ==
    LET cfg == getAppConfig(table)
    IN  IF cfg = <<>> THEN table
        ELSE IF \E i \in 1..Len(cfg[1].repositories) : cfg[1].repositories[i].id = repo.id
             THEN table
        ELSE storeAppConfigSQLite(table,
                [cfg[1] EXCEPT !.repositories = Append(@, repo)])

\* removeRepository
removeRepository(table, repoId) ==
    LET cfg == getAppConfig(table)
    IN  IF cfg = <<>> THEN table
        ELSE storeAppConfigSQLite(table,
                [cfg[1] EXCEPT !.repositories = SelectSeq(@, LAMBDA r : r.id # repoId)])

\* A mutant of getDecryptedCredentials: a webhook secret that does not
\* decrypt is handed on
getDecryptedCredentialsKeyOnly(table) ==
    LET cfg == getAppConfig(table)
    IN  IF cfg = <<>> THEN <<>>
        ELSE LET privateKey == decrypt(cfg[1].privateKey)
                 webhookSecret == decrypt(cfg[1].webhookSecret)
             IN  IF privateKey = DecryptError
                 THEN <<>>
                 ELSE <<[privateKey |-> privateKey, webhookSecret |-> webhookSecret]>>

\* getDecryptedCredentials: empty (null) without a config or when either
\* decrypt throws, else the two plaintexts
getDecryptedCredentials(table) ==
    LET cfg == getAppConfig(table)
    IN  IF cfg = <<>> THEN <<>>
        ELSE LET privateKey == decrypt(cfg[1].privateKey)
                 webhookSecret == decrypt(cfg[1].webhookSecret)
             IN  IF privateKey = DecryptError \/ webhookSecret = DecryptError
                 THEN <<>>
                 ELSE <<[privateKey |-> privateKey, webhookSecret |-> webhookSecret]>>

(***************************************************************************)
(* GitHubAppConfigDO: the installation_tokens table                        *)
(***************************************************************************)
\* getInstallationToken returning null
NoToken == [n |-> 0, inst |-> NULL]

\* SELECT * FROM installation_tokens ORDER BY created_at DESC LIMIT 1: the
\* possible result arrays.  Among rows with the same created_at the order of
\* the result is not defined, so each of them may be the one returned.
getCachedInstallationToken(rows) ==
    IF rows = <<>> THEN {<<>>}
    ELSE { <<rows[i]>> : i \in { j \in 1..Len(rows) :
               \A k \in 1..Len(rows) : ~SqlTextLess(rows[j].created_at, rows[k].created_at) } }

\* INTEGER PRIMARY KEY of a new row: one more than the largest in the table
NextRowId(rows) ==
    IF rows = <<>> THEN 1
    ELSE 1 + (CHOOSE m \in {rows[i].id : i \in 1..Len(rows)} :
                 \A i \in 1..Len(rows) : rows[i].id <= m)

\* storeInstallationTokenSQLite at time t
storeInstallationTokenSQLite(rows, token, expiresAt, t) ==
    LET nowIso == toISOString(t)
        kept == SelectSeq(rows, LAMBDA r : ~SqlTextLess(r.expires_at, nowIso))
    IN  kept \o <<[id |-> NextRowId(kept), token |-> token,
                   expires_at |-> expiresAt, created_at |-> nowIso]>>

\* 5 * 60 * 1000: a cached token is used while more than this is left
FiveMinutes == 5 * 60 * 1000

\* A mutant of CacheUsable: ten minutes must be left
CacheUsableTenMinutes(row, t) == DateParse(row.expires_at) - t > 2 * FiveMinutes

\* A mutant of CacheUsable: a token is used until it expires
CacheUsableUntilExpiry(row, t) == DateParse(row.expires_at) - t > 0

\* timeUntilExpiry > 5 * 60 * 1000, at time t
CacheUsable(row, t) == DateParse(row.expires_at) - t > FiveMinutes

(***************************************************************************)
(* Partitions, inputs and bounds                                           *)
(***************************************************************************)
\* The tenant partitions: idFromName(appId)
Apps == {"101", "202"}
\* Concurrent callers of /get-installation-token
NumCallers == 2
Callers == 1..NumCallers
\* getInstallationToken calls started in one behaviour
MaxCalls == 2

\* The instants the clock shows (ms): the start, half a second into the
\* second in which a two-minute token minted at the start expires, and five
\* minutes
Instants == {0, 120500, 300000}
\* Lifetimes of the tokens the remote API mints (ms)
Lifetimes == {120000, 600000}
\* Spelling of expires_at in the reply: to the second ("...ssZ"), as the
\* GitHub API writes it ("ms" would be with milliseconds)
ExpiryFormats == {"s"}

\* The expires_at string of a token that expires at instant t
ExpiresAtString(t, fmt) ==
    IF fmt = "s" THEN [sec |-> t \div 1000, ms |-> NoMs] ELSE toISOString(t)

PrivateKeyPem == <<2, 2>>
InstallationIds == {"i1", "i2"}
\* What handleOAuthCallback stores of the key and of a webhook secret:
\* encrypt under a random nonce
PrivateKeyBlobs == {encrypt(PrivateKeyPem, iv) : iv \in Ivs}
WebhookSecretBlobs(secrets) == {encrypt(w, iv) : w \in secrets, iv \in Ivs}

\* The config object handleOAuthCallback builds for an app: no installation
\* id, no repositories, no webhook seen
AppConfig(appId, privateKey, webhookSecret) ==
    [appId |-> appId,
     privateKey |-> privateKey,
     webhookSecret |-> webhookSecret,
     installationId |-> NULL,
     owner |-> [login |-> "unknown", type |-> "User", id |-> 0],
     permissions |-> "contents:read,metadata:read,pull_requests:write,issues:write",
     events |-> "issues",
     repositories |-> <<>>,
     createdAt |-> toISOString(0),
     lastWebhookAt |-> NoTime,
     webhookCount |-> 0]

(***************************************************************************)
(* Operations of one partition                                             *)
(***************************************************************************)
\* POST /store
DoStore(app, cfg) ==
    /\ config' = [config EXCEPT ![app] = storeAppConfigSQLite(@, cfg)]
    /\ UNCHANGED <<sigIn, sigOut, tokens, now, calls, issued, started, claude, wh, cf, pt, cr, gst>>

\* A mutant of UpdateInstallationEndpoint: the owner is not written
UpdateInstallationEndpointNoOwner(table, installationId, repositories, owner) ==
    updateInstallation(table, installationId, repositories)

\* The /update-installation endpoint: updateInstallation, then the owner
UpdateInstallationEndpoint(table, installationId, repositories, owner) ==
    LET updated == updateInstallation(table, installationId, repositories)
        cfg == getAppConfig(updated)
    IN  IF cfg = <<>> THEN updated
        ELSE storeAppConfigSQLite(updated, [cfg[1] EXCEPT !.owner = owner])

\* POST /update-installation
DoUpdateInstallation(app, installationId, repositories, owner) ==
    /\ config' = [config EXCEPT ![app] =
            UpdateInstallationEndpoint(@, installationId, repositories, owner)]
    /\ UNCHANGED <<sigIn, sigOut, tokens, now, calls, issued, started, claude, wh, cf, pt, cr, gst>>

\* Time passes
Tick ==
    /\ \E t \in Instants : t > now /\ now' = t
    /\ UNCHANGED <<sigIn, sigOut, config, tokens, calls, issued, started, claude, wh, cf, pt, cr, gst>>

\* A caller with no call in progress.  outcome is how the remote API answered
\* the call, why the path on which it returned, exchanges the POSTs it made.
IdleCall == [pc |-> "idle", app |-> NULL, inst |-> NULL, outcome |-> "none",
             why |-> "none", result |-> NoToken, exchanges |-> 0]

\* A call that has returned
ReturnedCall(call, why, result) ==
    [call EXCEPT !.pc = "done", !.why = why, !.result = result]

\* A mutant of generateInstallationToken: the status of the reply is not looked at
generateInstallationTokenIgnoreStatus(outcome, token, expiresAt) ==
    IF outcome # "transport" THEN <<[token |-> token, expires_at |-> expiresAt]>>
    ELSE <<>>

\* generateInstallationToken once the remote API has answered: the token data
\* of a 2xx reply, empty (null) for a non-2xx reply or a failed fetch
generateInstallationToken(outcome, token, expiresAt) ==
    IF outcome = "ok" THEN <<[token |-> token, expires_at |-> expiresAt]>>
    ELSE <<>>

\* A mutant of TokStart: the call goes to the exchange on a cache miss
\* whether or not there is a config and a credential
TokStartNoChecks(c, app) ==
    /\ calls[c].pc = "idle"
    /\ LET cfg == getAppConfig(config[app])
           call == [IdleCall EXCEPT !.app = app]
       IN  \E cachedToken \in getCachedInstallationToken(tokens[app]) :
                IF cachedToken # <<>> /\ CacheUsable(cachedToken[1], now)
                THEN calls' = [calls EXCEPT ![c] =
                                  ReturnedCall(call, "cache", cachedToken[1].token)]
                ELSE calls' = [calls EXCEPT ![c] =
                                  [call EXCEPT !.pc = "fetch",
                                               !.inst = IF cfg = <<>> THEN NULL
                                                        ELSE cfg[1].installationId,
                                               !.exchanges = @ + 1]]
    /\ UNCHANGED <<sigIn, sigOut, config, tokens, now, issued, claude, cf, pt, cr, gst>>

\* getInstallationToken up to its first await of the network: the config
\* check, the cache lookup, the decryption, and the POST to
\* /app/installations/{id}/access_tokens leaving
TokStart(c, app) ==
    /\ calls[c].pc = "idle"
    /\ LET cfg == getAppConfig(config[app])
           call == [IdleCall EXCEPT !.app = app]
       IN  IF cfg = <<>> \/ Falsy(cfg[1].installationId)
           THEN calls' = [calls EXCEPT ![c] = ReturnedCall(call, "noconfig", NoToken)]
           ELSE \E cachedToken \in getCachedInstallationToken(tokens[app]) :
                IF cachedToken # <<>> /\ CacheUsable(cachedToken[1], now)
                THEN calls' = [calls EXCEPT ![c] =
                                  ReturnedCall(call, "cache", cachedToken[1].token)]
                ELSE IF getDecryptedCredentials(config[app]) = <<>>
                THEN calls' = [calls EXCEPT ![c] = ReturnedCall(call, "nocreds", NoToken)]
                ELSE calls' = [calls EXCEPT ![c] =
                                  [call EXCEPT !.pc = "fetch",
                                               !.inst = cfg[1].installationId,
                                               !.exchanges = @ + 1]]
    /\ UNCHANGED <<sigIn, sigOut, config, tokens, now, issued, claude, cf, pt, cr, gst>>

\* getInstallationToken from the answer of the remote API to its return
TokReply(c) ==
    /\ calls[c].pc = "fetch"
    /\ \E outcome \in {"ok", "status", "transport"}, life \in Lifetimes, fmt \in ExpiryFormats :
        LET app == calls[c].app
            tokenData == generateInstallationToken(outcome,
                            [n |-> issued + 1, inst |-> calls[c].inst],
                            ExpiresAtString(now + life, fmt))
        IN  IF tokenData # <<>>
            THEN /\ tokens' = [tokens EXCEPT ![app] =
                        storeInstallationTokenSQLite(@, tokenData[1].token,
                                                     tokenData[1].expires_at, now)]
                 /\ issued' = issued + 1
                 /\ calls' = [calls EXCEPT ![c] =
                        ReturnedCall([@ EXCEPT !.outcome = outcome], "fresh",
                                     tokenData[1].token)]
            ELSE /\ life = CHOOSE l \in Lifetimes : TRUE
                 /\ calls' = [calls EXCEPT ![c] =
                        ReturnedCall([@ EXCEPT !.outcome = outcome], "failed", NoToken)]
                 /\ UNCHANGED <<tokens, issued>>
    /\ UNCHANGED <<sigIn, sigOut, config, now, claude, cf, pt, cr, gst>>

\* The caller has its answer
TokFinish(c) ==
    /\ calls[c].pc = "done"
    /\ calls' = [calls EXCEPT ![c] = IdleCall]
    /\ UNCHANGED <<sigIn, sigOut, config, tokens, now, issued, started, claude, wh, cf, pt, cr, gst>>

(***************************************************************************)
(* containerFetch (fetch.ts)                                               *)
(***************************************************************************)
\* timeout = 300000 when the options give none
DefaultTimeout == 300000
\* containerFetch calls made in one behaviour
MaxFetches == 2

\* An option that is left out is <<>>, one that is given <<its value>>
OrDefault(option, default) == IF option = <<>> THEN default ELSE option[1]

\* No response yet
NoResponse == [status |-> 0, body |-> [kind |-> "none"]]

\* What the container answers: a response with a status (its body is the
\* container's own), or a rejection with an Error or with another value
DownstreamAnswers ==
    {[settled |-> "resolved", status |-> st, error |-> "none"] : st \in {200, 404, 500, 503}}
    \cup {[settled |-> "rejected", status |-> 0, error |-> e] :
            e \in {"Error: Network connection lost", "not an Error"}}

\* new Error(`Container fetch timeout after ${timeout}ms`)
TimeoutError(timeout) == [message |-> "Container fetch timeout after", ms |-> timeout]

\* error instanceof Error ? error.message : String(error)
ErrorMessage(error) == [message |-> error, ms |-> 0]

\* The response of the catch block
FailureResponse(message, containerName, route) ==
    [status |-> 500,
     body |-> [kind |-> "json", error |-> "Container fetch failed", message |-> message,
               containerName |-> containerName, route |-> route]]

\* The response the container gave, handed on as it is
DownstreamResponse(answer) ==
    [status |-> answer.status, body |-> [kind |-> "downstream"]]

\* No call
IdleFetch ==
    [pc |-> "idle", containerName |-> "unknown", route |-> "unknown", timeout |-> 0,
     elapsed |-> 0, timer |-> "none", downstream |-> "none", answer |-> "none",
     outcome |-> "none", response |-> NoResponse, returns |-> 0, n |-> 0]

\* A mutant of AfterRace: a rejection of the race is not caught
AfterRaceNoCatch(call, winner, answer) ==
    IF winner = "downstream" /\ answer.settled = "resolved"
    THEN [call EXCEPT !.pc = "done", !.outcome = "returned",
                      !.response = DownstreamResponse(answer), !.returns = @ + 1]
    ELSE [call EXCEPT !.pc = "done", !.outcome = "thrown"]

\* A mutant of AfterRace: a response that is not ok is replaced by the failure
AfterRaceNormalizing(call, winner, answer) ==
    IF winner = "downstream" /\ answer.settled = "resolved"
       /\ answer.status >= 200 /\ answer.status <= 299
    THEN [call EXCEPT !.pc = "done", !.outcome = "returned",
                      !.response = DownstreamResponse(answer), !.returns = @ + 1]
    ELSE [call EXCEPT !.pc = "done", !.outcome = "returned",
                      !.response = FailureResponse(
                            IF winner = "timer" THEN TimeoutError(call.timeout)
                            ELSE ErrorMessage(answer.error),
                            call.containerName, call.route),
                      !.returns = @ + 1]

\* containerFetch from the settling of Promise.race to its return: the
\* response of the container when the race resolved, the response of the
\* catch block when it rejected (by the timer or by the container)
AfterRace(call, winner, answer) ==
    IF winner = "downstream" /\ answer.settled = "resolved"
    THEN [call EXCEPT !.pc = "done", !.outcome = "returned",
                      !.response = DownstreamResponse(answer), !.returns = @ + 1]
    ELSE [call EXCEPT !.pc = "done", !.outcome = "returned",
                      !.response = FailureResponse(
                            IF winner = "timer" THEN TimeoutError(call.timeout)
                            ELSE ErrorMessage(answer.error),
                            call.containerName, call.route),
                      !.returns = @ + 1]

\* A mutant of TimerDue: the timer may fire a millisecond early
TimerDueEarly(call) == call.elapsed >= call.timeout - 1

\* setTimeout(..., timeout): the callback can run once timeout ms have passed
TimerDue(call) == call.elapsed >= call.timeout

\* containerFetch is called: the options are read, the timer is set and
\* container.fetch is sent
CfCall(options) ==
    /\ cf.pc \in {"idle", "done"}
    /\ cf.n < MaxFetches
    /\ cf' = [IdleFetch EXCEPT !.pc = "racing",
                               !.containerName = OrDefault(options.containerName, "unknown"),
                               !.route = OrDefault(options.route, "unknown"),
                               !.timeout = OrDefault(options.timeout, DefaultTimeout),
                               !.timer = "set",
                               !.downstream = "pending",
                               !.n = cf.n + 1]
    /\ UNCHANGED <<sigIn, sigOut, config, tokens, now, calls, issued, started, claude, wh, pt, cr, gst>>

\* Time passes during a call: to just before the timeout, to it, or past it
CfTick ==
    /\ cf.pc = "racing"
    /\ \E e \in {cf.timeout - 1, cf.timeout, cf.timeout + 1} :
          e > cf.elapsed /\ cf' = [cf EXCEPT !.elapsed = e]
    /\ UNCHANGED <<sigIn, sigOut, config, tokens, now, calls, issued, started, claude, wh, pt, cr, gst>>

\* The container answers or the fetch fails; the race is settled by it when
\* the timer has not fired
CfDownstream(answer) ==
    /\ cf.pc = "racing"
    /\ cf.downstream = "pending"
    /\ cf' = AfterRace([cf EXCEPT !.downstream = answer.settled,
                                  !.answer = IF answer.settled = "resolved"
                                             THEN "status" ELSE answer.error],
                       "downstream", answer)
    /\ UNCHANGED <<sigIn, sigOut, config, tokens, now, calls, issued, started, claude, wh, pt, cr, gst>>

\* The timer fires while the container has not answered
CfTimer ==
    /\ cf.pc = "racing"
    /\ cf.timer = "set"
    /\ TimerDue(cf)
    /\ cf' = AfterRace([cf EXCEPT !.timer = "fired"], "timer",
                       [settled |-> "pending", status |-> 0, error |-> "none"])
    /\ UNCHANGED <<sigIn, sigOut, config, tokens, now, calls, issued, started, claude, wh, pt, cr, gst>>

\* The options of the calls of the model
FetchOptions ==
    [containerName : {<<>>, <<"claude-issue-1">>},
     route : {<<>>, <<"/process-issue">>},
     timeout : {<<>>, <<1000>>}]

(***************************************************************************)
(* handleGitHubWebhook                                                     *)
(***************************************************************************)
\* No request: the handler at rest.  verified is what verifyGitHubSignature
\* returned for the request, effects the calls the request has made so far
\* in their order,
\* status the status of its response, n the number of requests received,
\* tokenData what routeToClaudeCodeContainer got from GET
\* /get-installation-token, claudeKeyData what it got from GET /get-claude-key,
\* issueContext the body of the /process-issue request when one was sent,
\* error the message of the exception that reached the catch of
\* handleGitHubWebhook, text the body of a response with status 500.
\* body.complete tells that the payload has the issue and repository objects
\* handleIssuesEvent reads.
IdleWebhook ==
    [pc |-> "idle", signature |-> Absent, event |-> NULL, delivery |-> NULL,
     target |-> NULL, body |-> [raw |-> <<>>, valid |-> FALSE, app_id |-> NULL,
                                inst_id |-> NULL, action |-> NULL, repos |-> <<>>,
                                complete |-> TRUE,
                                account |-> [login |-> NULL, type |-> NULL, id |-> 0]],
     app |-> NULL, verified |-> FALSE, effects |-> <<>>, status |-> 0,
     todo |-> <<>>, n |-> 0, tokenData |-> NoToken, claudeKeyData |-> <<>>,
     issueContext |-> <<>>, error |-> "", text |-> ""]

\* response.ok
ResponseOk(status) == status >= 200 /\ status <= 299

\* A response is returned
Respond(w, status) == [w EXCEPT !.pc = "done", !.status = status]

\* A mutant of Throw: the response carries the message of the exception
ThrowLeaking(w, error) ==
    [Respond(w, 500) EXCEPT !.error = error, !.text = error]

\* An exception reaches the catch of handleGitHubWebhook
Throw(w, error) ==
    [Respond(w, 500) EXCEPT !.error = error, !.text = "Internal server error"]

\* The request has made a call
WithEffect(w, effect) == [w EXCEPT !.effects = Append(@, effect)]

\* getDecryptedClaudeApiKey: empty (null) without a row or when decrypt
\* throws, else <<the key>>
getDecryptedClaudeApiKey(table) ==
    LET results == SelectSeq(table, LAMBDA r : r.id = 1)
    IN  IF Len(results) = 0 THEN <<>>
        ELSE LET decryptedKey == decrypt(results[1].anthropicApiKey)
             IN  IF decryptedKey = DecryptError THEN <<>> ELSE <<decryptedKey>>

\* A mutant of storeClaudeApiKeySQLite: INSERT OR IGNORE, the first key stays
storeClaudeApiKeyKeepFirst(table, encryptedApiKey) ==
    IF table = <<>> THEN <<[id |-> 1, anthropicApiKey |-> encryptedApiKey]>> ELSE table

\* storeClaudeApiKey (the timestamps, which nothing reads, are left out)
storeClaudeApiKeySQLite(table, encryptedApiKey) ==
    InsertOrReplace(table, [id |-> 1, anthropicApiKey |-> encryptedApiKey])

\* What handleClaudeSetup stores: the API keys of a setup and of a re-setup,
\* each encrypted under its nonce
ClaudeApiKeys == {<<3>>, <<4>>}
ClaudeKeyBlobs ==
    {encrypt(<<3>>, [i \in 1..IvLen |-> 9]), encrypt(<<4>>, [i \in 1..IvLen |-> 200])}

\* POST /store-claude-key on the "claude-config" partition
DoStoreClaudeKey(encryptedApiKey) ==
    /\ claude' = storeClaudeApiKeySQLite(claude, encryptedApiKey)
    /\ UNCHANGED <<sigIn, sigOut, config, tokens, now, calls, issued, started, wh, cf, pt, cr, gst>>

\* handleInstallationEvent up to its first await
handleInstallationEvent(w) ==
    IF w.body.action = "created"
    THEN IF Falsy(w.body.inst_id)
         THEN Throw(w, "TypeError: Cannot read properties of undefined (reading 'toString')")
         ELSE [w EXCEPT !.pc = "update"]
    ELSE Respond(w, 200)

\* handleInstallationRepositoriesEvent up to its first await
handleInstallationRepositoriesEvent(w) ==
    IF w.body.action \in {"added", "removed"}
    THEN IF w.body.repos = <<>>
         THEN Respond(w, 200)
         ELSE [w EXCEPT !.pc = IF w.body.action = "added" THEN "addrepo" ELSE "removerepo",
                        !.todo = w.body.repos]
    ELSE Respond(w, 200)

\* A mutant of handleIssuesEvent: every action gets the full processing
handleIssuesEventAlwaysFull(w) == [w EXCEPT !.pc = "ack"]

\* handleIssuesEvent up to its first await
handleIssuesEvent(w) ==
    IF ~w.body.complete
    THEN Throw(w, "TypeError: Cannot read properties of undefined (reading 'number')")
    ELSE IF w.body.action = "opened" THEN [w EXCEPT !.pc = "ack"]
    ELSE [w EXCEPT !.pc = "forward"]

\* A mutant of routeWebhookEvent: an unknown event is handled as an issue
routeWebhookEventDefaultIssues(w) ==
    CASE w.event = "installation" -> handleInstallationEvent(w)
      [] w.event = "installation_repositories" -> handleInstallationRepositoriesEvent(w)
      [] OTHER -> handleIssuesEvent(w)

\* routeWebhookEvent
routeWebhookEvent(w) ==
    CASE w.event = "installation" -> handleInstallationEvent(w)
      [] w.event = "installation_repositories" -> handleInstallationRepositoriesEvent(w)
      [] w.event = "issues" -> handleIssuesEvent(w)
      [] OTHER -> Respond(w, 200)

\* A mutant of ReceiveWebhook: the header is asked before the payload
ReceiveWebhookHeaderFirst(w) ==
    IF w.signature \in {Absent, <<>>} \/ Falsy(w.event) \/ Falsy(w.delivery)
    THEN Respond(w, 400)
    ELSE IF ~w.body.valid THEN Respond(w, 400)
    ELSE IF w.event = "ping" THEN Respond(w, 200)
    ELSE IF ~Falsy(w.target)
         THEN [w EXCEPT !.pc = "creds", !.app = w.target]
    ELSE IF ~Falsy(w.body.app_id)
         THEN [w EXCEPT !.pc = "creds", !.app = w.body.app_id]
    ELSE Respond(w, 400)

\* A mutant of ReceiveWebhook: a ping is handled as any other event
ReceiveWebhookNoPing(w) ==
    IF w.signature \in {Absent, <<>>} \/ Falsy(w.event) \/ Falsy(w.delivery)
    THEN Respond(w, 400)
    ELSE IF ~w.body.valid THEN Respond(w, 400)
    ELSE IF ~Falsy(w.body.app_id)
         THEN [w EXCEPT !.pc = "creds", !.app = w.body.app_id]
    ELSE IF ~Falsy(w.target)
         THEN [w EXCEPT !.pc = "creds", !.app = w.target]
         ELSE Respond(w, 400)

\* A mutant of ReceiveWebhook: the ping shortcut comes before the header check
ReceiveWebhookPingFirst(w) ==
    IF w.event = "ping" /\ w.body.valid THEN Respond(w, 200)
    ELSE IF w.signature \in {Absent, <<>>} \/ Falsy(w.event) \/ Falsy(w.delivery)
    THEN Respond(w, 400)
    ELSE IF ~w.body.valid THEN Respond(w, 400)
    ELSE IF ~Falsy(w.body.app_id)
         THEN [w EXCEPT !.pc = "creds", !.app = w.body.app_id]
    ELSE IF ~Falsy(w.target)
         THEN [w EXCEPT !.pc = "creds", !.app = w.target]
         ELSE Respond(w, 400)

\* handleGitHubWebhook from the request to its first await: the header
\* check, JSON.parse, the ping shortcut and the choice of the partition
ReceiveWebhook(w) ==
    IF w.signature \in {Absent, <<>>} \/ Falsy(w.event) \/ Falsy(w.delivery)
    THEN Respond(w, 400)
    ELSE IF ~w.body.valid THEN Respond(w, 400)
    ELSE IF w.event = "ping" THEN Respond(w, 200)
    ELSE IF ~Falsy(w.body.app_id)
         THEN [w EXCEPT !.pc = "creds", !.app = w.body.app_id]
    ELSE IF ~Falsy(w.body.inst_id)
         THEN IF ~Falsy(w.target)
              THEN [w EXCEPT !.pc = "creds", !.app = w.target]
              ELSE Respond(w, 400)
    ELSE IF ~Falsy(w.target)
         THEN [w EXCEPT !.pc = "creds", !.app = w.target]
         ELSE Respond(w, 400)

\* A mutant of CheckSignature: an invalid signature is not turned away
CheckSignatureNoReject(w, status, credentials) ==
    IF ~ResponseOk(status) THEN Respond(w, 404)
    ELSE IF credentials = <<>> \/ credentials[1].webhookSecret = <<>>
    THEN [Respond(w, 500) EXCEPT !.text = "Webhook secret not found"]
    ELSE [w EXCEPT !.pc = "log",
                   !.verified = verifyGitHubSignature(w.body.raw, w.signature,
                                                      credentials[1].webhookSecret)]

\* handleGitHubWebhook from the answer to /get-credentials to the signature
\* check and what follows it
CheckSignature(w, status, credentials) ==
    IF ~ResponseOk(status) THEN Respond(w, 404)
    ELSE IF credentials = <<>> \/ credentials[1].webhookSecret = <<>>
    THEN [Respond(w, 500) EXCEPT !.text = "Webhook secret not found"]
    ELSE LET isValid == verifyGitHubSignature(w.body.raw, w.signature,
                                              credentials[1].webhookSecret)
         IN  IF ~isValid THEN Respond(w, 401)
             ELSE [w EXCEPT !.pc = "log", !.verified = isValid]

\* The caller slot through which the handler asks for installation tokens
WhCaller == 1
\* Webhook requests received in one behaviour
MaxRequests == 1

\* A new request arrives when none is being handled
WhReceive(r) ==
    /\ wh.pc \in {"idle", "done"}
    /\ wh.n < MaxRequests
    /\ wh' = ReceiveWebhook([IdleWebhook EXCEPT !.signature = r.signature,
                                                !.event = r.event,
                                                !.delivery = r.delivery,
                                                !.target = r.target,
                                                !.body = r.body,
                                                !.n = wh.n + 1])
    /\ UNCHANGED <<sigIn, sigOut, config, tokens, now, calls, issued, started, claude, cf, pt, cr, gst>>

\* GET /get-credentials is answered (always with status 200), the signature
\* is checked
WhCredentials ==
    /\ wh.pc = "creds"
    /\ wh' = CheckSignature(wh, 200, getDecryptedCredentials(config[wh.app]))
    /\ UNCHANGED <<sigIn, sigOut, config, tokens, now, calls, issued, started, claude, cf, pt, cr, gst>>

\* POST /log-webhook, then routeWebhookEvent up to the handler's first await
WhLogWebhook ==
    /\ wh.pc = "log"
    /\ config' = [config EXCEPT ![wh.app] = logWebhook(@, now)]
    /\ wh' = routeWebhookEvent(WithEffect(wh, "log-webhook"))
    /\ UNCHANGED <<sigIn, sigOut, tokens, now, calls, issued, started, claude, cf, pt, cr, gst>>

\* handleInstallationEvent: POST /update-installation, then the response
WhUpdateInstallation ==
    /\ wh.pc = "update"
    /\ config' = [config EXCEPT ![wh.app] =
            UpdateInstallationEndpoint(@, wh.body.inst_id, wh.body.repos,
                                       [login |-> wh.body.account.login,
                                        type |-> wh.body.account.type,
                                        id |-> wh.body.account.id])]
    /\ wh' = Respond(WithEffect(wh, "update-installation"), 200)
    /\ UNCHANGED <<sigIn, sigOut, tokens, now, calls, issued, started, claude, cf, pt, cr, gst>>

\* handleInstallationRepositoriesEvent: POST /add-repository for the next
\* repository, the response after the last
WhAddRepository ==
    /\ wh.pc = "addrepo"
    /\ config' = [config EXCEPT ![wh.app] = addRepository(@, Head(wh.todo))]
    /\ LET w == WithEffect([wh EXCEPT !.todo = Tail(@)], "add-repository")
       IN  wh' = IF w.todo = <<>> THEN Respond(w, 200) ELSE w
    /\ UNCHANGED <<sigIn, sigOut, tokens, now, calls, issued, started, claude, cf, pt, cr, gst>>

\* handleInstallationRepositoriesEvent: DELETE /remove-repository/{id} for
\* the next repository, the response after the last
WhRemoveRepository ==
    /\ wh.pc = "removerepo"
    /\ config' = [config EXCEPT ![wh.app] = removeRepository(@, Head(wh.todo).id)]
    /\ LET w == WithEffect([wh EXCEPT !.todo = Tail(@)], "remove-repository")
       IN  wh' = IF w.todo = <<>> THEN Respond(w, 200) ELSE w
    /\ UNCHANGED <<sigIn, sigOut, tokens, now, calls, issued, started, claude, cf, pt, cr, gst>>

\* GET /get-installation-token is sent: by makeAuthenticatedRequest for the
\* first comment ("ack") or the error comment ("err"), or by
\* routeToClaudeCodeContainer ("route")
WhTokenCall ==
    /\ wh.pc \in {"ack", "err", "route"}
    /\ TokStart(WhCaller, wh.app)
    /\ wh' = WithEffect([wh EXCEPT !.pc = @ \o "wait"], "get-installation-token")
    /\ UNCHANGED started

\* The remote API answers the handler's token exchange
WhTokenAnswer == TokReply(WhCaller) /\ UNCHANGED <<started, wh>>

\* GET /get-installation-token is answered.  makeAuthenticatedRequest throws
\* without a token; routeToClaudeCodeContainer goes on with or without one.
WhTokenReturn ==
    /\ wh.pc \in {"ackwait", "errwait", "routewait"}
    /\ calls[WhCaller].pc = "done"
    /\ calls' = [calls EXCEPT ![WhCaller] = IdleCall]
    /\ LET token == calls[WhCaller].result
       IN  wh' = [wh EXCEPT !.pc =
                    CASE wh.pc = "ackwait" -> IF token = NoToken THEN "err" ELSE "ackpost"
                      [] wh.pc = "errwait" -> IF token = NoToken THEN "forward" ELSE "errpost"
                      [] OTHER -> "claudekey",
                            !.tokenData = IF wh.pc = "routewait" THEN token ELSE @]
    /\ UNCHANGED <<sigIn, sigOut, config, tokens, now, issued, started, claude, cf, pt, cr, gst>>

\* createComment: the POST to the GitHub API, which answers or fails in
\* transport (the status of the answer is not looked at)
WhPostComment ==
    /\ wh.pc \in {"ackpost", "errpost"}
    /\ \E outcome \in {"answered", "transport"} :
          wh' = WithEffect([wh EXCEPT !.pc =
                    IF wh.pc = "ackpost" /\ outcome = "answered" THEN "route"
                    ELSE IF wh.pc = "ackpost" THEN "err"
                    ELSE "forward"], "comment")
    /\ UNCHANGED <<sigIn, sigOut, config, tokens, now, calls, issued, started, claude, cf, pt, cr, gst>>

\* routeToClaudeCodeContainer: GET /get-claude-key is answered
WhClaudeKey ==
    /\ wh.pc = "claudekey"
    /\ LET key == getDecryptedClaudeApiKey(claude)
       IN  wh' = [wh EXCEPT !.pc = IF key = <<>> \/ key[1] = <<>> THEN "err" ELSE "dispatch",
                            !.claudeKeyData = key]
    /\ UNCHANGED <<sigIn, sigOut, config, tokens, now, calls, issued, started, claude, cf, pt, cr, gst>>

\* routeToClaudeCodeContainer: /process-issue on the issue's container, which
\* answers 2xx, or answers otherwise or not at all (containerFetch then
\* answers 500) and the routing throws
WhProcessIssue ==
    /\ wh.pc = "dispatch"
    /\ \E status \in {200, 500} :
          wh' = WithEffect([wh EXCEPT !.pc = IF ResponseOk(status) THEN "forward" ELSE "err",
                                      !.issueContext =
                                          <<[ANTHROPIC_API_KEY |-> wh.claudeKeyData[1],
                                             GITHUB_TOKEN |-> wh.tokenData]>>],
                           "process-issue")
    /\ UNCHANGED <<sigIn, sigOut, config, tokens, now, calls, issued, started, claude, cf, pt, cr, gst>>

\* handleIssuesEvent: /webhook on the repository's container, then the
\* response
WhForward ==
    /\ wh.pc = "forward"
    /\ wh' = Respond(WithEffect(wh, "container-webhook"), 200)
    /\ UNCHANGED <<sigIn, sigOut, config, tokens, now, calls, issued, started, claude, cf, pt, cr, gst>>

\* The requests of the model.  The body is its text (raw, what the signature
\* is made of) and what JSON.parse makes of it.
Repo1 == [id |-> 1, name |-> "a", full_name |-> "octo/a", private |-> FALSE]
Repo2 == [id |-> 2, name |-> "b", full_name |-> "octo/b", private |-> TRUE]
WhRaw == <<1>>
WhSecret == <<1>>
WhApp == "101"
WhSignatures ==
    {Absent, SignatureOf(WhRaw, WhSecret), SignatureOf(WhRaw, <<3>>),
     SignatureOf(<<2>>, WhSecret), GitHubHex(HmacSha256(WhSecret, WhRaw))}
EventActions ==
    {<<"ping", NULL>>, <<"push", NULL>>,
     <<"installation", "created">>, <<"installation", "deleted">>,
     <<"installation_repositories", "added">>, <<"installation_repositories", "removed">>,
     <<"issues", "opened">>, <<"issues", "closed">>}
WebhookBody(valid, appId, instId, action, repos) ==
    [raw |-> WhRaw, valid |-> valid, app_id |-> appId, inst_id |-> instId,
     action |-> action, repos |-> repos, complete |-> TRUE,
     account |-> [login |-> "octo", type |-> "Organization", id |-> 7]]
WebhookRequests ==
    UNION {
        {[signature |-> sg, event |-> ea[1], delivery |-> "d1", target |-> tg,
          body |-> WebhookBody(TRUE, ai, ii, ea[2], rp)] :
            sg \in WhSignatures, tg \in {NULL, WhApp, "202"},
            ai \in {NULL, WhApp}, ii \in {NULL, "i1"},
            rp \in IF ea[2] = "created"
                   THEN {<<>>, <<Repo1, Repo2>>, <<Repo1, Repo1>>}
                   ELSE IF ea[2] \in {"added", "removed"}
                   THEN {<<>>, <<Repo1, Repo2>>} ELSE {<<>>}} : ea \in EventActions}
    \cup
    {[signature |-> SignatureOf(WhRaw, WhSecret), event |-> ev, delivery |-> dl,
      target |-> WhApp, body |-> WebhookBody(vl, WhApp, "i1", "opened", <<>>)] :
        ev \in {NULL, "issues"}, dl \in {NULL, "d1"}, vl \in BOOLEAN}
    \cup
    {[signature |-> SignatureOf(WhRaw, WhSecret), event |-> "installation",
      delivery |-> "d1", target |-> NULL,
      body |-> [WebhookBody(TRUE, WhApp, ii, "created", <<Repo2, Repo1>>)
                    EXCEPT !.account = [login |-> "hubber", type |-> "User", id |-> 8]]] :
        ii \in InstallationIds}

\* Verified requests whose handling throws or may meet a failing call;
\* some lack the installation id or the objects handleIssuesEvent reads
FaultRequests ==
    {[signature |-> SignatureOf(WhRaw, WhSecret), event |-> ea[1], delivery |-> "d1",
      target |-> NULL,
      body |-> [WebhookBody(TRUE, WhApp, ii, ea[2], rp) EXCEPT !.complete = cp]] :
        ea \in {<<"installation", "created">>, <<"installation_repositories", "added">>,
                <<"installation_repositories", "removed">>,
                <<"issues", "opened">>, <<"issues", "closed">>},
        ii \in {NULL, "i1"}, rp \in {<<>>, <<Repo1, Repo2>>}, cp \in BOOLEAN}

\* A call of the handler fails: one to the partition outside any inner try
\* reaches the catch of handleGitHubWebhook; one inside the try of
\* handleIssuesEvent goes to its catch, one inside that catch is logged only
WhCallFails ==
    /\ wh.pc \in {"creds", "log", "update", "addrepo", "removerepo",
                  "ack", "route", "claudekey", "err"}
    /\ wh' = CASE wh.pc \in {"ack", "route", "claudekey"} -> [wh EXCEPT !.pc = "err"]
               [] wh.pc = "err" -> [wh EXCEPT !.pc = "forward"]
               [] OTHER -> Throw(wh, "Error: Network connection lost.")
    /\ UNCHANGED <<sigIn, sigOut, config, tokens, now, calls, issued, started, claude, cf, pt, cr, gst>>

(***************************************************************************)
(* GitHubAppConfigDO.fetch: requests in progress on the partitions         *)
(***************************************************************************)
\* The requests that may be in progress at once
NumRequests == 3
Slots == 1..NumRequests

\* No request.  pc is "body" while request.json() is awaited, "read" and
\* "read2" while the getAppConfig of the handler is awaited; local is what
\* that getAppConfig returned.
NoRequest ==
    [pc |-> "idle", app |-> NULL, kind |-> "none", cfg |-> <<>>,
     installationId |-> NULL, repositories |-> <<>>, repo |-> <<>>, local |-> <<>>]

\* No request on any partition.  turn is, per partition, the request whose
\* continuation is queued as a microtask (0: none); initial the tables the
\* requests started from.
IdlePartitions ==
    [reqs |-> [i \in Slots |-> NoRequest],
     turn |-> [a \in Apps |-> 0],
     initial |-> [a \in Apps |-> <<>>]]

\* The owner the installation event carries
PtOwner == [login |-> "octo", type |-> "Organization", id |-> 7]

\* The requests of the model to the partition of an app
PartitionRequests(app) ==
    LET r == [NoRequest EXCEPT !.pc = "body", !.app = app]
    IN  {[r EXCEPT !.kind = "store",
                   !.cfg = <<AppConfig(app, encrypt(PrivateKeyPem, [i \in 1..IvLen |-> 200]),
                                       encrypt(<<1>>, [i \in 1..IvLen |-> 200]))>>],
         [r EXCEPT !.kind = "update", !.installationId = "i2",
                   !.repositories = <<[id |-> 1, name |-> "a", full_name |-> "octo/a",
                                       private |-> FALSE]>>],
         [r EXCEPT !.kind = "add",
                   !.repo = <<[id |-> 2, name |-> "b", full_name |-> "octo/b",
                               private |-> TRUE]>>],
         [r EXCEPT !.kind = "remove",
                   !.repo = <<[id |-> 1, name |-> "a", full_name |-> "octo/a",
                               private |-> FALSE]>>],
         [r EXCEPT !.kind = "log"]}

\* An await on a promise that is already settled (every method of the table
\* is synchronous SQL behind an async signature) resumes in the microtask
\* queue of the same event: no other request of the partition runs between
\* the getAppConfig of a handler and the store that follows it.
InTurnAny(i, app) == TRUE
InTurnNoRefresh(i, app) ==
    /\ pt.turn[app] \in {0, i}
    /\ \A c \in Callers : calls[c].pc # "fetch"
InTurn(i, app) == pt.turn[app] \in {0, i}

\* A mutant of AfterRead: a handler that read no config stores a new one
AfterReadCreating(r, table) ==
    IF r.local = <<>> THEN storeAppConfigSQLite(table, AppConfig(r.app, <<>>, <<>>))
    ELSE table

\* What the handler does with the config it read, once resumed
AfterRead(r, table) ==
    IF r.local = <<>> THEN table
    ELSE CASE r.kind = "update" /\ r.pc = "read" ->
                storeAppConfigSQLite(table,
                    [r.local[1] EXCEPT !.installationId = r.installationId,
                                       !.repositories = r.repositories])
           [] r.kind = "update" /\ r.pc = "read2" ->
                storeAppConfigSQLite(table, [r.local[1] EXCEPT !.owner = PtOwner])
           [] r.kind = "log" ->
                storeAppConfigSQLite(table,
                    [r.local[1] EXCEPT !.lastWebhookAt = toISOString(now),
                                       !.webhookCount = @ + 1])
           [] r.kind = "add" ->
                IF \E k \in 1..Len(r.local[1].repositories) :
                        r.local[1].repositories[k].id = r.repo[1].id
                THEN table
                ELSE storeAppConfigSQLite(table,
                        [r.local[1] EXCEPT !.repositories = Append(@, r.repo[1])])
           [] OTHER ->
                storeAppConfigSQLite(table,
                    [r.local[1] EXCEPT !.repositories =
                        SelectSeq(@, LAMBDA x : x.id # r.repo[1].id)])

\* fetch is called with a request: it awaits request.json()
PtReceive(i, r) ==
    /\ pt.reqs[i].pc = "idle"
    /\ i > 1 => pt.reqs[i - 1].pc # "idle"
    /\ pt' = [pt EXCEPT !.reqs[i] = r]
    /\ UNCHANGED <<sigIn, sigOut, config, tokens, now, calls, issued, started, claude, wh, cf, cr, gst>>

\* The body is there: /store writes the row; the other handlers call
\* getAppConfig and await what it returns
PtHandle(i) ==
    LET r == pt.reqs[i]
    IN  /\ r.pc = "body"
        /\ InTurn(i, r.app)
        /\ IF r.kind = "store"
           THEN /\ config' = [config EXCEPT ![r.app] = storeAppConfigSQLite(@, r.cfg[1])]
                /\ pt' = [pt EXCEPT !.reqs[i].pc = "done"]
           ELSE /\ pt' = [pt EXCEPT !.reqs[i].pc = "read",
                                    !.reqs[i].local = getAppConfig(config[r.app]),
                                    !.turn[r.app] = i]
                /\ UNCHANGED config
        /\ UNCHANGED <<sigIn, sigOut, tokens, now, calls, issued, started, claude, wh, cf, cr, gst>>

\* The handler resumes with the config it read and stores what it made of
\* it; /update-installation then reads the row once more for the owner
PtResume(i) ==
    LET r == pt.reqs[i]
        written == AfterRead(r, config[r.app])
    IN  /\ r.pc \in {"read", "read2"}
        /\ InTurn(i, r.app)
        /\ config' = [config EXCEPT ![r.app] = written]
        /\ pt' = IF r.kind = "update" /\ r.pc = "read"
                 THEN [pt EXCEPT !.reqs[i].pc = "read2",
                                 !.reqs[i].local = getAppConfig(written),
                                 !.turn[r.app] = i]
                 ELSE [pt EXCEPT !.reqs[i].pc = "done",
                                 !.reqs[i].local = <<>>,
                                 !.turn[r.app] = 0]
        /\ UNCHANGED <<sigIn, sigOut, tokens, now, calls, issued, started, claude, wh, cf, cr, gst>>

(***************************************************************************)
(* handleGitHubStatus                                                      *)
(***************************************************************************)
\* No status request yet.  body is <<the object the response carries>>.
NoStatus == [app |-> NULL, status |-> 0, body |-> <<>>]

\* JSON.stringify of safeConfig: a property whose value is undefined
\* (lastWebhookAt, installationId) is left out
SafeConfigKeys(cfg) ==
    {"appId", "owner", "repositories", "permissions", "events", "createdAt",
     "webhookCount", "hasCredentials"}
    \cup (IF cfg.lastWebhookAt = NoTime THEN {} ELSE {"lastWebhookAt"})
    \cup (IF cfg.installationId = NULL THEN {} ELSE {"installationId"})

\* A mutant of handleGitHubStatus: the stored webhook secret is in the response
handleGitHubStatusWithSecret(appId, tables) ==
    IF Falsy(appId)
    THEN [app |-> appId, status |-> 400, body |-> <<[error |-> "Missing app_id parameter"]>>]
    ELSE LET stored == getAppConfig(tables[appId])
         IN  IF stored = <<>>
             THEN [app |-> appId, status |-> 404,
                   body |-> <<[error |-> "No configuration found for this app ID"]>>]
             ELSE [app |-> appId, status |-> 200, body |-> <<stored[1]>>]

\* handleGitHubStatus for ?app_id=appId (NULL without the parameter), the
\* partitions holding tables
handleGitHubStatus(appId, tables) ==
    IF Falsy(appId)
    THEN [app |-> appId, status |-> 400, body |-> <<[error |-> "Missing app_id parameter"]>>]
    ELSE LET stored == getAppConfig(tables[appId])
         IN  IF stored = <<>>
             THEN [app |-> appId, status |-> 404,
                   body |-> <<[error |-> "No configuration found for this app ID"]>>]
             ELSE LET cfg == stored[1]
                      hasCredentials == ~(cfg.privateKey = <<>>) /\ ~(cfg.webhookSecret = <<>>)
                  IN  [app |-> appId, status |-> 200,
                       body |-> <<[k \in SafeConfigKeys(cfg) |->
                            CASE k = "appId" -> cfg.appId
                              [] k = "owner" -> cfg.owner
                              [] k = "repositories" -> cfg.repositories
                              [] k = "permissions" -> cfg.permissions
                              [] k = "events" -> cfg.events
                              [] k = "createdAt" -> cfg.createdAt
                              [] k = "lastWebhookAt" -> cfg.lastWebhookAt
                              [] k = "webhookCount" -> cfg.webhookCount
                              [] k = "installationId" -> cfg.installationId
                              [] OTHER -> hasCredentials]>>]

\* GET /github/status is answered
StatusRequest(appId) ==
    /\ gst' = handleGitHubStatus(appId, config)
    /\ UNCHANGED <<sigIn, sigOut, config, tokens, now, calls, issued, started, claude, wh, cf, pt, cr>>

\* POST /log-webhook on a partition
DoLogWebhook(app) ==
    /\ config' = [config EXCEPT ![app] = logWebhook(@, now)]
    /\ UNCHANGED <<sigIn, sigOut, tokens, now, calls, issued, started, claude, wh, cf, pt, cr, gst>>

(***************************************************************************)
(* Specifications                                                          *)
(***************************************************************************)
\* Everything but the signature check at rest
PartitionsAtRest ==
    /\ config = [a \in Apps |-> <<>>]
    /\ tokens = [a \in Apps |-> <<>>]
    /\ now = 0
    /\ calls = [c \in Callers |-> IdleCall]
    /\ issued = 0
    /\ started = 0
    /\ claude = <<>>
    /\ wh = IdleWebhook
    /\ cf = IdleFetch
    /\ pt = IdlePartitions
    /\ cr = NoText
    /\ gst = NoStatus

\* verifyGitHubSignature on every payload, header and secret of the model
SigSpecInit == SigInit /\ PartitionsAtRest
SpecSig == SigSpecInit /\ [][SigVerify]_vars

\* The token cache of one tenant: /store, /update-installation and
\* /get-installation-token requests from concurrent callers, as time passes
TokApp == "101"
\* A caller asks for a token, while fewer than MaxCalls calls were made
TokCall(c) ==
    /\ started < MaxCalls
    /\ started' = started + 1
    /\ TokStart(c, TokApp)
    /\ UNCHANGED wh
\* The remote API answers a caller's exchange
TokAnswer(c) == TokReply(c) /\ UNCHANGED <<started, wh>>
TokInit ==
    /\ sigIn = NoSigInput
    /\ sigOut = <<>>
    /\ PartitionsAtRest

TokNext ==
    \/ \E pk \in PrivateKeyBlobs, ws \in WebhookSecretBlobs({<<1>>}) :
            DoStore(TokApp, AppConfig(TokApp, pk, ws))
    \/ \E inst \in InstallationIds :
            DoUpdateInstallation(TokApp, inst, <<>>,
                                 [login |-> "octo", type |-> "Organization", id |-> 7])
    \/ Tick
    \/ \E c \in Callers : TokCall(c)
    \/ \E c \in Callers : TokAnswer(c)
    \/ \E c \in Callers : TokFinish(c)

SpecToken == TokInit /\ [][TokNext]_vars

\* The webhook endpoint: requests arrive one after another and are handled
\* step by step, while the app and the Claude key are set up and time passes
\* The app WhApp has been set up through the OAuth callback, and is installed
\* on an account or not yet; the other app was never set up
StoredConfigs ==
    {storeAppConfigSQLite(<<>>, AppConfig(WhApp, encrypt(PrivateKeyPem, iv),
                                          encrypt(WhSecret, iv))) : iv \in Ivs}
InstalledConfigs ==
    {UpdateInstallationEndpoint(t, "i1", <<Repo1>>,
                                [login |-> "octo", type |-> "Organization", id |-> 7]) :
        t \in StoredConfigs}
Init ==
    /\ sigIn = NoSigInput
    /\ sigOut = <<>>
    /\ \E t \in StoredConfigs \cup InstalledConfigs :
            config = [a \in Apps |-> IF a = WhApp THEN t ELSE <<>>]
    /\ tokens = [a \in Apps |-> <<>>]
    /\ now = 0
    /\ calls = [c \in Callers |-> IdleCall]
    /\ issued = 0
    /\ started = 0
    /\ claude = <<>>
    /\ wh = IdleWebhook
    /\ cf = IdleFetch
    /\ pt = IdlePartitions
    /\ cr = NoText
    /\ gst = NoStatus

Next ==
    \/ \E key \in ClaudeKeyBlobs : DoStoreClaudeKey(key)
    \/ Tick
    \/ \E r \in WebhookRequests : WhReceive(r)
    \/ WhCredentials
    \/ WhLogWebhook
    \/ WhUpdateInstallation
    \/ WhAddRepository
    \/ WhRemoveRepository
    \/ WhTokenCall
    \/ WhTokenAnswer
    \/ WhTokenReturn
    \/ WhPostComment
    \/ WhClaudeKey
    \/ WhProcessIssue
    \/ WhForward

Spec == Init /\ [][Next]_vars

\* The webhook endpoint when calls may fail and payloads may lack fields
FaultNext ==
    \/ DoStoreClaudeKey(encrypt(<<3>>, [i \in 1..IvLen |-> 9]))
    \/ Tick
    \/ \E r \in FaultRequests : WhReceive(r)
    \/ WhCallFails
    \/ WhCredentials
    \/ WhLogWebhook
    \/ WhUpdateInstallation
    \/ WhAddRepository
    \/ WhRemoveRepository
    \/ WhTokenCall
    \/ WhTokenAnswer
    \/ WhTokenReturn
    \/ WhPostComment
    \/ WhClaudeKey
    \/ WhProcessIssue
    \/ WhForward

SpecFaults == Init /\ [][FaultNext]_vars

\* containerFetch: calls one after another with every option given or left
\* out, the container answering at any time or never, the timer firing at any
\* time from the timeout on.  Time goes on and a due timer fires.
FetchInit ==
    /\ sigIn = NoSigInput
    /\ sigOut = <<>>
    /\ PartitionsAtRest

FetchNext ==
    \/ \E options \in FetchOptions : CfCall(options)
    \/ CfTick
    \/ \E answer \in DownstreamAnswers : CfDownstream(answer)
    \/ CfTimer

SpecFetch == FetchInit /\ [][FetchNext]_vars /\ WF_vars(CfTick) /\ WF_vars(CfTimer)

\* The partitions under concurrent requests: up to NumRequests requests to
\* the partitions of both apps are in progress at once.  The app "101" is set
\* up and installed, the app "202" is not.
PtInit ==
    /\ sigIn = NoSigInput
    /\ sigOut = <<>>
    /\ config = [a \in Apps |->
                    IF a = "101"
                    THEN UpdateInstallationEndpoint(
                            storeAppConfigSQLite(<<>>,
                                AppConfig(a, encrypt(PrivateKeyPem, [i \in 1..IvLen |-> 9]),
                                          encrypt(<<1>>, [i \in 1..IvLen |-> 9]))),
                            "i1",
                            <<[id |-> 1, name |-> "a", full_name |-> "octo/a",
                               private |-> FALSE]>>,
                            PtOwner)
                    ELSE <<>>]
    /\ tokens = [a \in Apps |-> <<>>]
    /\ now = 0
    /\ calls = [c \in Callers |-> IdleCall]
    /\ issued = 0
    /\ started = 0
    /\ claude = <<>>
    /\ wh = IdleWebhook
    /\ cf = IdleFetch
    /\ pt = [IdlePartitions EXCEPT !.initial = config]
    /\ cr = NoText
    /\ gst = NoStatus

PtNext ==
    \/ \E i \in Slots, app \in Apps : \E r \in PartitionRequests(app) : PtReceive(i, r)
    \/ \E i \in Slots : PtHandle(i)
    \/ \E i \in Slots : PtResume(i)

SpecPartition == PtInit /\ [][PtNext]_vars

\* The tenants side by side: requests to the partitions of both apps while a
\* caller asks either partition for a token and the Claude key is set up.  A
\* request that has its body is
\* handled in the end; nothing makes the remote API answer the token exchange.
MaxTenantRequests == 2
TenantSlots == 1..MaxTenantRequests
MaxRefreshes == 1
PtTokCall(c, app) ==
    /\ started < MaxRefreshes
    /\ started' = started + 1
    /\ TokStart(c, app)
    /\ UNCHANGED wh

TenantNext ==
    \/ \E i \in TenantSlots, app \in Apps : \E r \in PartitionRequests(app) : PtReceive(i, r)
    \/ \E i \in TenantSlots : PtHandle(i)
    \/ \E i \in TenantSlots : PtResume(i)
    \/ \E app \in Apps : PtTokCall(1, app)
    \/ TokAnswer(1)
    \/ TokFinish(1)
    \/ DoStoreClaudeKey(encrypt(<<3>>, [i \in 1..IvLen |-> 9]))

SpecTenants ==
    PtInit /\ [][TenantNext]_vars
    /\ WF_vars(\E i \in TenantSlots : PtHandle(i) \/ PtResume(i))

\* encrypt and decrypt on every text of the model under every nonce
CryptoInit ==
    /\ sigIn = NoSigInput
    /\ sigOut = <<>>
    /\ config = [a \in Apps |-> <<>>]
    /\ tokens = [a \in Apps |-> <<>>]
    /\ now = 0
    /\ calls = [c \in Callers |-> IdleCall]
    /\ issued = 0
    /\ started = 0
    /\ claude = <<>>
    /\ wh = IdleWebhook
    /\ cf = IdleFetch
    /\ pt = IdlePartitions
    /\ \E text \in Texts, iv \in Ivs : cr = [NoText EXCEPT !.pc = "text", !.text = text, !.iv = iv]
    /\ gst = NoStatus

CryptoNext == CrEncrypt \/ CrDecrypt

SpecCrypto == CryptoInit /\ [][CryptoNext]_vars

\* The status endpoint: apps are set up and set up again, installed and sent
\* webhooks, and their status is asked for
MaxLogged == 1
StatusInit == sigIn = NoSigInput /\ sigOut = <<>> /\ PartitionsAtRest
StatusNext ==
    \/ \E a \in Apps, pk \in PrivateKeyBlobs, ws \in WebhookSecretBlobs({<<1>>, <<3>>}) :
            DoStore(a, AppConfig(a, pk, ws))
    \/ \E a \in Apps :
            DoUpdateInstallation(a, "i1", <<Repo1>>,
                                 [login |-> "octo", type |-> "Organization", id |-> 7])
    \/ \E a \in Apps :
            /\ getAppConfig(config[a]) # <<>>
            /\ getAppConfig(config[a])[1].webhookCount < MaxLogged
            /\ DoLogWebhook(a)
    \/ \E appId \in Apps \cup {NULL} : StatusRequest(appId)
SpecStatus == StatusInit /\ [][StatusNext]_vars

(***************************************************************************)
(* Claims                                                                  *)
(***************************************************************************)
\* The rows of a partition's installation_tokens table
TokenRows(app) == {tokens[app][i] : i \in 1..Len(tokens[app])}
\* The same after the step
TokenRowsAfter(app) == {tokens'[app][i] : i \in 1..Len(tokens'[app])}
\* Caller c makes the first step of a call in this step
Starts(c) == calls[c].pc = "idle" /\ calls'[c].pc # "idle"
\* Caller c's call returns in this step
Returns(c) == calls[c].pc # "done" /\ calls'[c].pc = "done"
\* The rows that no row is newer than (by created_at)
NewestRows(app) ==
    {r \in TokenRows(app) : \A q \in TokenRows(app) : ~SqlTextLess(r.created_at, q.created_at)}
\* More than five minutes are left of a row at instant t
FreshEnough(r, t) == DateParse(r.expires_at) - t > 300000

\* C1: in a webhook request whose event is not ping, nothing of the
\* following is done unless verifyGitHubSignature has returned true for the
\* request under the decrypted webhook secret of the tenant: log-webhook,
\* update-installation, add-repository, remove-repository,
\* get-installation-token, a comment, a dispatch to a container.
C1_VerifiedBeforeEffects ==
    [][/\ wh'.effects \notin {<<>>, wh.effects}
          => /\ wh.verified /\ wh'.verified
             /\ wh.event # "ping"
             /\ wh.signature = SignatureOf(wh.body.raw, WhSecret)
       /\ wh' # wh /\ wh'.effects \in {<<>>, wh.effects}
          => UNCHANGED <<config, tokens>>
       /\ wh'.event = "ping" => wh'.effects = <<>>]_vars

\* C1 witness: a verified request has gone through every call of the issue
\* flow
C1_Witness ==
    /\ wh.pc = "done" /\ wh.verified /\ wh.status = 200
    /\ wh.effects = <<"log-webhook", "get-installation-token", "comment",
                      "get-installation-token", "process-issue", "container-webhook">>

\* C3: a non-ping webhook (with its headers and a JSON body, so that it gets
\* to a tenant) for a tenant that is set up, whose signature is not the one of
\* its body under the tenant's webhook secret, is answered 401, and
\* the request has left the tenant's partition as it was: it made no call
\* that writes, and none of its steps changed the config or the tokens.
C3_BadSignature401 ==
    [][/\ (/\ wh.pc = "creds" /\ wh' # wh
           /\ getAppConfig(config[wh.app]) # <<>>
           /\ wh.signature #
                <<"s", "h", "a", "2", "5", "6", "=">>
                \o GitHubHex(HmacSha256(decrypt(config[wh.app][1].webhookSecret),
                                        wh.body.raw)))
          => /\ wh'.pc = "done" /\ wh'.status = 401
             /\ wh'.effects = <<>>
             /\ UNCHANGED <<config, tokens, calls, issued, claude>>
       /\ wh'.status = 401 => wh'.effects = <<>> /\ ~wh'.verified
       /\ wh' # wh /\ wh'.pc = "creds" => UNCHANGED <<config, tokens, calls, issued, claude>>]_vars

\* C3 witness: a request signed under another secret, and one signed for
\* another body, was answered 401 by an installed tenant
C3_Witness ==
    /\ wh.pc = "done" /\ wh.status = 401
    /\ wh.event = "issues"
    /\ wh.signature \in {SignatureOf(WhRaw, <<3>>), SignatureOf(<<2>>, WhSecret)}
    /\ getAppConfig(config[wh.app]) # <<>>
    /\ getAppConfig(config[wh.app])[1].installationId = "i1"

\* C2: verifyGitHubSignature returns true exactly when the header is present,
\* starts with sha256= and the rest of it is the lowercase hex HMAC-SHA256 of
\* the payload under the secret; so it returns false for the signature of
\* another payload or under another secret, without the prefix, and for an
\* absent header.
C2_VerifyExact ==
    sigOut # <<>> =>
        /\ sigOut[1] =
              (/\ sigIn.header # Absent
               /\ Len(sigIn.header) >= 7
               /\ SubSeq(sigIn.header, 1, 7) = <<"s", "h", "a", "2", "5", "6", "=">>
               /\ SubSeq(sigIn.header, 8, Len(sigIn.header))
                    = GitHubHex(HmacSha256(sigIn.secret, sigIn.payload)))
        /\ \A p \in Payloads, k \in Secrets :
              (p # sigIn.payload \/ k # sigIn.secret) /\ sigIn.header = SignatureOf(p, k)
                  => sigOut[1] = FALSE
        /\ sigIn.header \in {Absent, GitHubHex(HmacSha256(sigIn.secret, sigIn.payload))}
              => sigOut[1] = FALSE

\* C2 witness: a correctly signed payload has been accepted
C2_Witness ==
    sigOut = <<TRUE>> /\ sigIn.header = SignatureOf(sigIn.payload, sigIn.secret)

\* C4 (as claimed): token refresh is mutually exclusive per tenant; at no time
\* are two token exchanges for one tenant in flight, and two overlapping
\* calls that missed the cache return the same token.
C4_SingleFlight ==
    \A c, d \in Callers :
        c # d /\ calls[c].app = calls[d].app =>
            /\ ~(calls[c].pc = "fetch" /\ calls[d].pc = "fetch")
            /\ (calls[c].pc = "done" /\ calls[d].pc = "done"
                /\ calls[c].why = "fresh" /\ calls[d].why = "fresh")
                   => calls[c].result = calls[d].result

\* C5 (as claimed): the installation_tokens table of a partition has at most
\* one row in every reachable state.
C5_AtMostOneRow == \A app \in Apps : Len(tokens[app]) <= 1

\* C6 (as claimed): whenever the partition holds a cached token with more than
\* five minutes left, a getInstallationToken call returns that token, makes no
\* token exchange and leaves the stored state unchanged.
C6_AnyCachedToken ==
    [][\A c \in Callers :
        Starts(c) /\ (\E r \in TokenRows(calls'[c].app) : FreshEnough(r, now))
        => /\ calls'[c].pc = "done"
           /\ \E r \in TokenRows(calls'[c].app) :
                  FreshEnough(r, now) /\ calls'[c].result = r.token
           /\ calls'[c].exchanges = 0
           /\ UNCHANGED <<config, tokens, issued>>]_vars

\* C6 (amended): whenever the tenant has a stored credential with an
\* installation id and the newest cached token (the row the cache lookup
\* reads) has more than five minutes left, a getInstallationToken call returns
\* that token, makes no token exchange and leaves the stored state unchanged.
C6_NewestCachedToken ==
    [][\A c \in Callers :
        LET app == calls'[c].app
        IN  /\ Starts(c)
            /\ Len(config[app]) = 1
            /\ config[app][1].installationId \in InstallationIds
            /\ NewestRows(app) # {}
            /\ \A r \in NewestRows(app) : FreshEnough(r, now)
            => /\ calls'[c].pc = "done"
               /\ \E r \in NewestRows(app) : calls'[c].result = r.token
               /\ calls'[c].exchanges = 0
               /\ UNCHANGED <<config, tokens, issued>>]_vars

\* C6 witness: a call has been served from the cache
C6_Witness ==
    \E c \in Callers :
        /\ calls[c].pc = "done" /\ calls[c].why = "cache"
        /\ \E r \in TokenRows(calls[c].app) : r.token = calls[c].result /\ FreshEnough(r, now)

\* C7 (as claimed): every non-null token getInstallationToken returns, from
\* the cache or freshly exchanged, has more than five minutes left at the
\* moment it is returned.
C7_EveryReturnedToken ==
    [][\A c \in Callers :
        Returns(c) /\ calls'[c].result # NoToken
        => \E r \in TokenRowsAfter(calls'[c].app) :
               r.token = calls'[c].result /\ FreshEnough(r, now')]_vars

\* C7 (amended): every token getInstallationToken serves from the cache has
\* more than five minutes left at the moment it is returned; a freshly
\* exchanged token is returned with the expiry the remote API gave it,
\* unchecked.
C7_CachedReturnedToken ==
    [][\A c \in Callers :
        Returns(c) /\ calls'[c].result # NoToken /\ calls'[c].exchanges = 0
        => \E r \in TokenRowsAfter(calls'[c].app) :
               r.token = calls'[c].result /\ FreshEnough(r, now')]_vars

\* C7 witness: a call returned a cached token that an earlier call exchanged
C7_Witness ==
    \E c \in Callers :
        /\ calls[c].pc = "done" /\ calls[c].exchanges = 0 /\ calls[c].result # NoToken
        /\ issued >= 1

C9_ExpiredPurged ==
    [][\A c \in Callers :
        Returns(c) /\ calls'[c].outcome = "ok"
        => /\ \A r \in TokenRowsAfter(calls'[c].app) : ~(DateParse(r.expires_at) < now')
           /\ \E r \in TokenRowsAfter(calls'[c].app) :
                 /\ r.token = calls'[c].result
                 /\ \A q \in TokenRowsAfter(calls'[c].app) :
                        ~SqlTextLess(r.created_at, q.created_at)]_vars

\* C10: when the token exchange answers with a non-success status or fails in
\* transport, the call returns null, has made exactly one exchange attempt,
\* and leaves the cached tokens and the credential unchanged (so does the
\* first step of every call).
C10_FailedExchange ==
    [][\A c \in Callers :
        /\ Returns(c) /\ calls'[c].outcome \in {"status", "transport"}
           => /\ calls'[c].result = NoToken
              /\ calls'[c].exchanges = 1
              /\ UNCHANGED <<config, tokens, issued>>
        /\ Starts(c) => UNCHANGED <<config, tokens, issued>>]_vars

\* C10 witness: a call has returned null after a failed exchange while a token
\* is cached
C10_Witness ==
    \E c \in Callers :
        /\ calls[c].pc = "done" /\ calls[c].outcome = "transport"
        /\ calls[c].result = NoToken
        /\ tokens[calls[c].app] # <<>>

\* Texts that decrypt cannot open: not base64, an encrypted key cut short, and
\* one whose last byte was changed
TamperedBlobs ==
    UNION {LET e == encrypt(PrivateKeyPem, iv)
           IN  {<<65, 1, 2, 3>>,
                SubSeq(e, 1, Len(e) - 4),
                [e EXCEPT ![Len(e) - 1] = (@ + 1) % 64]} : iv \in Ivs}

IsTimeoutFailure(call) ==
    /\ call.response.status = 500
    /\ call.response.body.kind = "json"
    /\ call.response.body.message.message = "Container fetch timeout after"

\* The response is a structured failure: status 500 with error, message,
\* containerName and route
IsStructuredFailure(call) ==
    /\ call.response.status = 500
    /\ call.response.body.kind = "json"
    /\ call.response.body.error = "Container fetch failed"
    /\ call.response.body.containerName = call.containerName
    /\ call.response.body.route = call.route

\* C12: containerFetch never throws; it returns the timeout failure (status
\* 500, a JSON body with error, message, containerName and route) exactly when
\* the timer fired before the container answered, and never before the
\* timeout has passed.
C12_TimeoutFailure ==
    /\ cf.outcome # "thrown"
    /\ cf.pc = "done" =>
        /\ cf.outcome = "returned"
        /\ IsTimeoutFailure(cf) <=> (cf.timer = "fired" /\ cf.downstream = "pending")
        /\ IsTimeoutFailure(cf) =>
            /\ IsStructuredFailure(cf)
            /\ cf.response.body.message.ms = cf.timeout
            /\ cf.elapsed >= cf.timeout

\* C12 witness: a call with the default timeout has returned the timeout
\* failure, and the container had not answered
C12_Witness ==
    /\ cf.pc = "done" /\ IsTimeoutFailure(cf)
    /\ cf.timeout = 300000 /\ cf.elapsed >= 300000
    /\ cf.downstream = "pending"

\* C13: every containerFetch call returns in the end, with exactly one
\* response, also when the container never answers; once the timer has fired
\* the call is not pending.
C13_AlwaysReturns ==
    /\ [](cf.pc = "racing" => <>(cf.pc = "done" /\ cf.outcome = "returned"))
    /\ [](cf.pc = "done" => cf.returns = 1 /\ cf.response # NoResponse)
    /\ [](cf.pc = "racing" => cf.returns = 0 /\ cf.timer = "set")

\* C13 witness: the container never answered, the timer fired and the call
\* has returned its one response
C13_Witness ==
    /\ cf.pc = "done" /\ cf.timer = "fired" /\ cf.downstream = "pending"
    /\ cf.returns = 1 /\ cf.outcome = "returned"

\* C14 (as claimed): whenever the container's call ends in an error, a
\* non-2xx status or a failure in transport, containerFetch returns the
\* structured failure and not what the container gave.
C14_EveryErrorNormalized ==
    (/\ cf.pc = "done"
     /\ \/ cf.downstream = "rejected"
        \/ cf.downstream = "resolved" /\ ~(cf.response.status \in 200..299))
    => IsStructuredFailure(cf)

\* C14 (amended): whenever the container's call fails in transport (the fetch
\* rejects), containerFetch returns the structured failure (status 500 with
\* error, message, containerName, route) carrying the message of the error;
\* a response of the container is returned as it is, whatever its status.
C14_RejectionNormalized ==
    cf.pc = "done" =>
        /\ cf.downstream = "rejected"
            => /\ IsStructuredFailure(cf)
               /\ cf.response.body.message = [message |-> cf.answer, ms |-> 0]
        /\ cf.downstream = "resolved"
            => /\ cf.response.body.kind = "downstream"
               /\ cf.response.status \in {200, 404, 500, 503}

\* C14 witness: the fetch was rejected and the call returned the structured
\* failure; the names are the defaults
C14_Witness ==
    /\ cf.pc = "done" /\ cf.downstream = "rejected"
    /\ IsStructuredFailure(cf)
    /\ cf.response.body.containerName = "unknown"

\* C15: every /process-issue request carries an installation token that is
\* not null (GITHUB_TOKEN) and a decrypted Claude API key that is not null
\* (ANTHROPIC_API_KEY); when either is not to be had, no such request is sent.
C15_DispatchCarriesBoth ==
    wh.issueContext # <<>> =>
        /\ wh.issueContext[1].GITHUB_TOKEN # NoToken
        /\ wh.issueContext[1].ANTHROPIC_API_KEY # <<>>

\* One request handled alone, from its body to its response
ApplyRequest(table, r) ==
    CASE r.kind = "store" -> storeAppConfigSQLite(table, r.cfg[1])
      [] r.kind = "update" ->
            UpdateInstallationEndpoint(table, r.installationId, r.repositories, PtOwner)
      [] r.kind = "add" -> addRepository(table, r.repo[1])
      [] r.kind = "remove" -> removeRepository(table, r.repo[1].id)
      [] OTHER -> logWebhook(table, now)

\* The requests of a sequence of slots handled one after the other
RECURSIVE ApplyInOrder(_, _)
ApplyInOrder(table, order) ==
    IF order = <<>> THEN table
    ELSE ApplyInOrder(ApplyRequest(table, pt.reqs[Head(order)]), Tail(order))

\* The orders in which a set of slots can be put
Orders(S) ==
    {o \in [1..Cardinality(S) -> S] :
        \A j, k \in 1..Cardinality(S) : j # k => o[j] # o[k]}

\* The requests to the partition of an app that are answered
Answered(app) == {i \in Slots : pt.reqs[i].app = app /\ pt.reqs[i].pc = "done"}

\* The tables the answered requests leave when handled one at a time
SerialResults(app) == {ApplyInOrder(pt.initial[app], o) : o \in Orders(Answered(app))}

\* C16: requests to one partition (store, update-installation, add-repository,
\* remove-repository, log-webhook) that are in progress at once leave the
\* stored credential as handling them one at a time in some order would: no
\* update is lost.  In particular every answered log-webhook is counted as
\* long as no store replaced the row.
C16_SerialOrder ==
    \A app \in Apps :
        pt.turn[app] = 0 =>
            /\ config[app] \in SerialResults(app)
            /\ (/\ getAppConfig(pt.initial[app]) # <<>>
                /\ \A i \in Answered(app) : pt.reqs[i].kind # "store")
               => getAppConfig(config[app])[1].webhookCount =
                    getAppConfig(pt.initial[app])[1].webhookCount
                    + Cardinality({i \in Answered(app) : pt.reqs[i].kind = "log"})

\* C16 witness: three requests to one partition were in progress at once and
\* are answered, two log-webhook and an add-repository; both webhooks are
\* counted and the repository is there
C16_Witness ==
    /\ \A i \in Slots : pt.reqs[i].pc = "done" /\ pt.reqs[i].app = "101"
    /\ Cardinality({i \in Slots : pt.reqs[i].kind = "log"}) = 2
    /\ Cardinality({i \in Slots : pt.reqs[i].kind = "add"}) = 1
    /\ getAppConfig(config["101"])[1].webhookCount = 2
    /\ Len(getAppConfig(config["101"])[1].repositories) = 2

\* The request in a slot has taken a step
Stepped(i) == pt'.reqs[i] # pt.reqs[i]

\* C17: an operation on one partition leaves the credential and the tokens of
\* every other partition, and the deployment secret, as they were; and a
\* token refresh in flight on one tenant never keeps an operation on another
\* tenant from completing: a request that has its body is answered, also when
\* the remote API never answers the refresh.
C17_PartitionsApart ==
    /\ [][/\ \A i \in Slots : \A b \in Apps :
                Stepped(i) /\ pt'.reqs[i].app # b
                    => config'[b] = config[b] /\ tokens'[b] = tokens[b] /\ claude' = claude
          /\ \A c \in Callers : \A b \in Apps :
                calls'[c] # calls[c] /\ b \notin {calls[c].app, calls'[c].app}
                    => config'[b] = config[b] /\ tokens'[b] = tokens[b] /\ claude' = claude
          /\ claude' # claude => config' = config /\ tokens' = tokens]_vars
    /\ \A i \in Slots :
            [](pt.reqs[i].pc = "body" => <>(pt.reqs[i].pc = "done"))
    /\ [](\A i \in Slots : \A c \in Callers :
            /\ calls[c].pc = "fetch"
            /\ pt.reqs[i].pc \in {"body", "read", "read2"}
            /\ pt.reqs[i].app # calls[c].app
            /\ pt.turn[pt.reqs[i].app] \in {0, i}
            => ENABLED (PtHandle(i) \/ PtResume(i)))

\* C17 witness: while the refresh of the tenant "101" is in flight, a request
\* to the partition "202" has stored a credential there and is answered, and
\* the credential of "101" is as it was
C17_Witness ==
    /\ calls[1].pc = "fetch" /\ calls[1].app = "101"
    /\ \E i \in Slots : pt.reqs[i].pc = "done" /\ pt.reqs[i].app = "202"
                        /\ pt.reqs[i].kind = "store"
    /\ config["202"] # <<>>
    /\ config["101"] = pt.initial["101"]
    /\ tokens["202"] = <<>>
    /\ claude # <<>>

\* A request is received with its three headers and a body that parses
ReceivedWellFormed ==
    /\ wh'.n = wh.n + 1
    /\ wh'.signature \notin {Absent, <<>>}
    /\ ~Falsy(wh'.event) /\ ~Falsy(wh'.delivery)
    /\ wh'.body.valid

\* C18: the tenant of a webhook is the installation.app_id of its payload
\* when there is one, also when the installation-target-id header names
\* another app, and the header otherwise; with neither the request is
\* answered 400 and no partition is contacted.
C18_TenantResolution ==
    [][ReceivedWellFormed /\ wh'.event # "ping" =>
          IF wh'.body.app_id # NULL
          THEN wh'.app = wh'.body.app_id /\ wh'.pc = "creds"
          ELSE IF wh'.target # NULL
          THEN wh'.app = wh'.target /\ wh'.pc = "creds"
          ELSE /\ wh'.pc = "done" /\ wh'.status = 400
               /\ wh'.app = NULL /\ wh'.effects = <<>>
               /\ UNCHANGED <<config, tokens, calls, issued, claude>>]_vars

\* C18 witness: a request whose payload names the app "101" and whose header
\* names the app "202" is with the partition "101"; its signature was
\* checked against the secret of "101"
C18_Witness ==
    /\ wh.body.app_id = "101" /\ wh.target = "202"
    /\ wh.app = "101" /\ wh.pc = "log" /\ wh.verified

\* C19: a ping with the required headers and a body that parses is answered
\* 200 whatever its tenant and its signature, and contacts no partition.
C19_PingAcknowledged ==
    [][ReceivedWellFormed /\ wh'.event = "ping" =>
          /\ wh'.pc = "done" /\ wh'.status = 200
          /\ wh'.app = NULL /\ wh'.effects = <<>> /\ ~wh'.verified
          /\ UNCHANGED <<config, tokens, calls, issued, claude>>]_vars

\* C19 witness: a ping for the app that was never set up, signed under
\* another secret, was answered 200
C19_Witness ==
    /\ wh.event = "ping" /\ wh.pc = "done" /\ wh.status = 200
    /\ wh.target = "202" /\ wh.body.app_id = NULL
    /\ wh.signature = SignatureOf(WhRaw, <<3>>)
    /\ config["202"] = <<>>

\* C20: a webhook other than a ping whose tenant has no stored credential is
\* answered 404.
C20_UnknownTenant404 ==
    [][(/\ wh.pc = "creds" /\ wh' # wh
        /\ getAppConfig(config[wh.app]) = <<>>)
       => wh'.pc = "done" /\ wh'.status = 404]_vars

\* The repositories and the installation id of a partition's credential
\* (nothing when there is no credential)
Installation(table) ==
    IF getAppConfig(table) = <<>> THEN <<>>
    ELSE <<getAppConfig(table)[1].installationId, getAppConfig(table)[1].repositories>>

\* C21: a webhook of an event type other than ping, installation,
\* installation_repositories and issues, for a tenant that is set up and with
\* a valid signature, is answered 200; it causes no dispatch to a container
\* and no token request, and leaves installationId and repositories as they
\* were.
C21_UnknownEventAcknowledged ==
    /\ [](wh.verified /\ wh.event \notin {"ping", "installation",
                                          "installation_repositories", "issues"}
            => /\ wh.pc \in {"log", "done"}
               /\ wh.pc = "done" => wh.status = 200 /\ wh.effects = <<"log-webhook">>
               /\ wh.tokenData = NoToken /\ wh.issueContext = <<>>)
    /\ [][wh.pc = "log" /\ wh' # wh
          /\ wh.event \notin {"ping", "installation", "installation_repositories", "issues"}
            => /\ wh'.pc = "done" /\ wh'.status = 200
               /\ UNCHANGED <<tokens, calls, issued, claude>>
               /\ \A a \in Apps : Installation(config'[a]) = Installation(config[a])]_vars

\* C21 witness: a verified push event of the installed tenant was answered
\* 200 and is counted as a webhook
C21_Witness ==
    /\ wh.event = "push" /\ wh.verified /\ wh.pc = "done" /\ wh.status = 200
    /\ getAppConfig(config[wh.app])[1].webhookCount = 1
    /\ getAppConfig(config[wh.app])[1].installationId = "i1"

\* C22: for a verified issues event the full processing (/process-issue) is
\* started only when the action is opened; for every other action exactly
\* one /webhook notification is dispatched and nothing else: no comment, no
\* token request, no /process-issue.
C22_IssuesDispatch ==
    wh.verified /\ wh.event = "issues" =>
        /\ (\E k \in 1..Len(wh.effects) : wh.effects[k] = "process-issue")
                => wh.body.action = "opened"
        /\ wh.body.action # "opened" =>
                /\ wh.pc \in {"log", "forward", "done"}
                /\ \A k \in 1..Len(wh.effects) :
                        wh.effects[k] \in {"log-webhook", "container-webhook"}
                /\ calls[WhCaller] = IdleCall
                /\ wh.pc = "done" =>
                        /\ wh.effects = <<"log-webhook", "container-webhook">>
                        /\ wh.status = 200

\* C22 witness: a verified issues event with the action closed is answered
\* after its one /webhook notification
C22_Witness ==
    /\ wh.verified /\ wh.event = "issues" /\ wh.body.action = "closed"
    /\ wh.pc = "done" /\ wh.effects = <<"log-webhook", "container-webhook">>

\* C23: when a verified installation event with the action deleted has been
\* handled, the repository list of the tenant holds none of the repositories
\* it held before the event.
C23_UninstallClearsRepositories ==
    [][(/\ wh.pc = "log" /\ wh'.pc = "done"
        /\ wh.event = "installation" /\ wh.body.action = "deleted"
        /\ getAppConfig(config[wh.app]) # <<>>)
       => LET before == getAppConfig(config[wh.app])[1].repositories
              after == getAppConfig(config'[wh.app])[1].repositories
          IN  \A j \in 1..Len(before) : \A k \in 1..Len(after) :
                    after[k].id # before[j].id]_vars

\* The repositories of a partition's credential (none without a credential)
Repositories(table) ==
    IF getAppConfig(table) = <<>> THEN <<>> ELSE getAppConfig(table)[1].repositories

\* The number of entries of a list with an id
CountId(repositories, id) ==
    Cardinality({k \in 1..Len(repositories) : repositories[k].id = id})

\* C24: in every reachable state of a tenant partition the stored list of
\* repositories has no two entries with the same id.
C24_UniqueRepositoryIds ==
    \A a \in Apps : \A id \in {Repo1.id, Repo2.id} :
        CountId(Repositories(config[a]), id) <= 1

\* C25: addRepository and removeRepository are set operations keyed by the
\* id: adding a repository whose id is there leaves the list as it is, so
\* adding the same id twice gives exactly one entry; removing an id that is
\* not there leaves the list as it is; removing an id removes every entry with
\* it and no other.
C25_RepositorySetOperations ==
    /\ [](\A a \in Apps : \A repo \in {Repo1, Repo2} :
            LET list == Repositories(config[a])
                added == Repositories(addRepository(config[a], repo))
                removed == Repositories(removeRepository(config[a], repo.id))
            IN  /\ CountId(list, repo.id) > 0 => addRepository(config[a], repo) = config[a]
                /\ getAppConfig(config[a]) # <<>> /\ CountId(list, repo.id) = 0 =>
                        /\ added = Append(list, repo)
                        /\ addRepository(addRepository(config[a], repo), repo)
                                = addRepository(config[a], repo)
                /\ CountId(list, repo.id) = 0 => removed = list
                /\ CountId(removed, repo.id) = 0
                /\ \A other \in {Repo1.id, Repo2.id} \ {repo.id} :
                        CountId(removed, other) = CountId(list, other)
                /\ Len(removed) = Len(list) - CountId(list, repo.id))
    /\ [][/\ wh.pc = "addrepo" /\ wh' # wh =>
                IF CountId(Repositories(config[wh.app]), Head(wh.todo).id) > 0
                THEN config' = config
                ELSE Repositories(config'[wh.app]) =
                        Append(Repositories(config[wh.app]), Head(wh.todo))
          /\ wh.pc = "removerepo" /\ wh' # wh =>
                /\ CountId(Repositories(config'[wh.app]), Head(wh.todo).id) = 0
                /\ CountId(Repositories(config[wh.app]), Head(wh.todo).id) = 0
                        => Repositories(config'[wh.app]) = Repositories(config[wh.app])]_vars

\* C25 witness: the repositories octo/a and octo/b were added to a tenant
\* that held octo/a: the list holds each once
C25_Witness ==
    /\ wh.event = "installation_repositories" /\ wh.body.action = "added"
    /\ wh.pc = "done" /\ wh.effects = <<"log-webhook", "add-repository", "add-repository">>
    /\ Repositories(config[wh.app]) = <<Repo1, Repo2>>

\* C26: webhookCount of a tenant partition never decreases, whatever the
\* operation of the partition.
C26_WebhookCountMonotonic ==
    [][\A a \in Apps :
          getAppConfig(config[a]) # <<>> /\ getAppConfig(config'[a]) # <<>>
            => getAppConfig(config'[a])[1].webhookCount
                    >= getAppConfig(config[a])[1].webhookCount]_vars

\* C27: store is an idempotent full upsert: a partition holds at most one
\* credential row; after a store it holds exactly one, the credential stored,
\* whatever it held before; storing the same credential once more changes
\* nothing.
C27_StoreUpsert ==
    /\ \A a \in Apps : Len(config[a]) <= 1
    /\ \A pk \in PrivateKeyBlobs, ws \in WebhookSecretBlobs({<<1>>}) :
            LET cfg == AppConfig(TokApp, pk, ws)
                stored == storeAppConfigSQLite(config[TokApp], cfg)
            IN  /\ Len(stored) = 1
                /\ getAppConfig(stored) = <<cfg>>
                /\ storeAppConfigSQLite(stored, cfg) = stored

\* C27 witness: the app was set up, installed, and set up again: the
\* credential is the one of the last store, without an installation, while
\* the token of the installation is still there
C27_Witness ==
    /\ tokens[TokApp] # <<>>
    /\ getAppConfig(config[TokApp]) # <<>>
    /\ getAppConfig(config[TokApp])[1].installationId = NULL
    /\ getAppConfig(config[TokApp])[1].privateKey = encrypt(PrivateKeyPem, [i \in 1..IvLen |-> 200])

\* C28: getAppConfig returns null on a partition on which store was never
\* executed, whatever else was executed on it: update-installation,
\* add-repository, remove-repository, log-webhook, get-installation-token and
\* store-claude-key never create a credential row.
C28_OnlyStoreCreates ==
    /\ [](/\ getAppConfig(<<>>) = <<>>
          /\ updateInstallation(<<>>, "i1", <<Repo1>>) = <<>>
          /\ UpdateInstallationEndpoint(<<>>, "i1", <<Repo1>>, PtOwner) = <<>>
          /\ addRepository(<<>>, Repo1) = <<>>
          /\ removeRepository(<<>>, Repo1.id) = <<>>
          /\ logWebhook(<<>>, now) = <<>>)
    /\ [][\A a \in Apps :
            getAppConfig(config[a]) = <<>> /\ getAppConfig(config'[a]) # <<>>
                => \E i \in Slots : /\ pt.reqs[i].kind = "store" /\ pt.reqs[i].app = a
                                    /\ pt.reqs[i].pc = "body" /\ pt'.reqs[i].pc = "done"]_vars

\* C28 witness: two requests other than store were answered by the partition
\* "202", a token was asked of it and the Claude key was stored: it has no
\* credential
C28_Witness ==
    /\ \A i \in TenantSlots : /\ pt.reqs[i].pc = "done" /\ pt.reqs[i].app = "202"
                              /\ pt.reqs[i].kind \in {"update", "log"}
    /\ pt.reqs[1].kind # pt.reqs[2].kind
    /\ calls[1].pc = "done" /\ calls[1].app = "202"
    /\ claude # <<>>
    /\ getAppConfig(config["202"]) = <<>>

\* C29: getDecryptedCredentials returns null when no credential is stored and
\* when the private key or the webhook secret does not decrypt; no error
\* leaves it; a result that is not null holds both secrets decrypted.
C29_DecryptedCredentials ==
    /\ getDecryptedCredentials(<<>>) = <<>>
    /\ \A bad \in TamperedBlobs, good \in PrivateKeyBlobs :
            /\ getDecryptedCredentials(
                    storeAppConfigSQLite(config[TokApp], AppConfig(TokApp, bad, good))) = <<>>
            /\ getDecryptedCredentials(
                    storeAppConfigSQLite(config[TokApp], AppConfig(TokApp, good, bad))) = <<>>
    /\ LET credentials == getDecryptedCredentials(config[TokApp])
       IN  /\ credentials = <<>> <=> getAppConfig(config[TokApp]) = <<>>
           /\ credentials # <<>> =>
                /\ credentials[1].privateKey = PrivateKeyPem
                /\ credentials[1].webhookSecret = <<1>>

\* C29 witness: the credentials of the installed app were decrypted for a
\* token exchange that is in flight
C29_Witness ==
    /\ getDecryptedCredentials(config[TokApp]) # <<>>
    /\ \E c \in Callers : calls[c].pc = "fetch" /\ calls[c].exchanges > 0

\* C30: updateInstallation changes nothing on a partition without a
\* credential; on one with a credential it sets installationId and
\* repositories, and leaves appId, the encrypted private key, the encrypted
\* webhook secret, permissions, events, createdAt, lastWebhookAt and
\* webhookCount as they are.
C30_UpdateInstallationFrame ==
    /\ [](\A a \in Apps :
            LET updated == updateInstallation(config[a], "i2", <<Repo2, Repo1>>)
            IN  IF getAppConfig(config[a]) = <<>> THEN updated = config[a]
                ELSE /\ Len(updated) = 1
                     /\ getAppConfig(updated)[1] =
                            [getAppConfig(config[a])[1] EXCEPT
                                !.installationId = "i2",
                                !.repositories = <<Repo2, Repo1>>])
    /\ [][\A i \in Slots :
            Stepped(i) /\ pt.reqs[i].kind = "update" =>
                LET a == pt.reqs[i].app
                IN  IF getAppConfig(config[a]) = <<>> THEN config' = config
                    ELSE CASE pt.reqs[i].pc = "read" ->
                                getAppConfig(config'[a])[1] =
                                    [getAppConfig(config[a])[1] EXCEPT
                                        !.installationId = pt.reqs[i].installationId,
                                        !.repositories = pt.reqs[i].repositories]
                           [] pt.reqs[i].pc = "read2" ->
                                getAppConfig(config'[a])[1] =
                                    [getAppConfig(config[a])[1] EXCEPT !.owner = PtOwner]
                           [] OTHER -> config' = config]_vars

\* C30 witness: after two webhooks were counted, update-installation was
\* answered: the installation is the new one and both webhooks are counted
C30_Witness ==
    /\ \E i \in Slots : pt.reqs[i].kind = "update" /\ pt.reqs[i].pc = "done"
                        /\ pt.reqs[i].app = "101"
    /\ Cardinality({i \in Slots : pt.reqs[i].kind = "log" /\ pt.reqs[i].pc = "done"
                                  /\ pt.reqs[i].app = "101"}) = 2
    /\ getAppConfig(config["101"])[1].installationId = "i2"
    /\ getAppConfig(config["101"])[1].webhookCount = 2

\* C31: once a deployment secret is stored in the claude-config partition no
\* operation removes it: the partition holds exactly one row from then on,
\* and getDecryptedClaudeApiKey returns the plaintext of the key stored last
\* (a re-setup overwrites the key).
C31_DeploymentSecretKept ==
    /\ [](/\ Len(claude) <= 1
          /\ claude # <<>> =>
                /\ getDecryptedClaudeApiKey(claude) # <<>>
                /\ getDecryptedClaudeApiKey(claude)[1] \in ClaudeApiKeys
          /\ \A k \in ClaudeApiKeys, iv \in Ivs :
                LET table == storeClaudeApiKeySQLite(claude, encrypt(k, iv))
                IN  Len(table) = 1 /\ getDecryptedClaudeApiKey(table) = <<k>>)
    /\ [][/\ claude # <<>> => claude' # <<>>
          /\ claude' # claude => claude' \in {<<[id |-> 1, anthropicApiKey |-> b]>> :
                                                  b \in ClaudeKeyBlobs}
          /\ wh' # wh => claude' = claude]_vars

\* C31 witness: an issue was dispatched with the key of the setup, and the
\* key of the re-setup is the one the partition gives now
C31_Witness ==
    /\ wh.issueContext # <<>> /\ wh.issueContext[1].ANTHROPIC_API_KEY = <<3>>
    /\ getDecryptedClaudeApiKey(claude) = <<<<4>>>>
    /\ Len(claude) = 1

\* C32: for every string s, decrypt(encrypt(s)) returns s.
C32_RoundTrip ==
    cr.pc = "decrypted" => cr.decrypted = cr.text

\* C33: handleGitHubWebhook lets no exception escape: a request gets exactly
\* one response, also when the payload lacks a field a handler reads or a
\* call fails, and an exception that reaches its catch gives status 500 with
\* the fixed body 'Internal server error', which has nothing of the error.
C33_NoExceptionEscapes ==
    /\ [](/\ wh.error # "" =>
                /\ wh.pc = "done" /\ wh.status = 500
                /\ wh.text = "Internal server error" /\ wh.text # wh.error
          /\ wh.pc = "done" <=> wh.status # 0
          /\ wh.pc \notin {"idle", "done"} => wh.error = "")
    /\ [][/\ wh.pc = "done" => (wh' = wh \/ wh'.n = wh.n + 1)
          /\ (wh.pc \in {"creds", "log", "update", "addrepo", "removerepo"}
                 /\ wh'.error # "") => wh'.status = 500
          /\ wh'.n = wh.n + 1 => wh'.pc # "idle"]_vars

\* C33 witness: a call to the partition failed after the signature was
\* verified and calls were made, and the request was answered with 500
C33_Witness ==
    /\ wh.pc = "done" /\ wh.status = 500 /\ wh.verified
    /\ wh.error = "Error: Network connection lost."
    /\ wh.effects # <<>>

\* C34: handleGitHubWebhook checks in a fixed order and stops at the first
\* check that fails: a missing signature, event or delivery header gives 400;
\* then an unparseable body gives 400; then a ping gives 200; then a tenant
\* that cannot be resolved gives 400; then a webhook secret that is not
\* available gives an error status; then a bad signature gives 401.  A
\* request with a missing header gets 400 also when it is a ping, and no
\* partition is contacted for a request that fails the header, the parse or
\* the tenant check.
C34_ChecksInOrder ==
    [][/\ wh'.n = wh.n + 1 =>
             LET w == wh'
                 answered(status) ==
                     /\ w.pc = "done" /\ w.status = status /\ w.effects = <<>>
                     /\ config' = config /\ calls' = calls /\ w.app = NULL
             IN  IF w.signature \in {Absent, <<>>} \/ Falsy(w.event) \/ Falsy(w.delivery)
                 THEN answered(400)
                 ELSE IF ~w.body.valid THEN answered(400)
                 ELSE IF w.event = "ping" THEN answered(200)
                 ELSE IF Falsy(w.body.app_id) /\ Falsy(w.target) THEN answered(400)
                 ELSE /\ w.pc = "creds"
                      /\ w.app = IF Falsy(w.body.app_id) THEN w.target ELSE w.body.app_id
       /\ (wh.pc = "creds" /\ wh' # wh) =>
             LET credentials == getDecryptedCredentials(config[wh.app])
             IN  IF credentials = <<>> \/ credentials[1].webhookSecret = <<>>
                 THEN wh'.pc = "done" /\ wh'.status >= 400 /\ ~wh'.verified
                 ELSE IF ~verifyGitHubSignature(wh.body.raw, wh.signature,
                                                credentials[1].webhookSecret)
                 THEN wh'.pc = "done" /\ wh'.status = 401 /\ ~wh'.verified
                 ELSE wh'.pc = "log" /\ wh'.verified
       /\ wh'.pc \in {"creds", "log"} => wh'.status = 0]_vars

\* C34 witness: a ping without its signature header was answered 400
C34_Witness ==
    /\ wh.pc = "done" /\ wh.status = 400 /\ wh.event = "ping"
    /\ wh.signature = Absent /\ wh.body.valid

\* The webhookCount of a partition, 0 without a config
WebhookCount(table) ==
    IF getAppConfig(table) = <<>> THEN 0 ELSE getAppConfig(table)[1].webhookCount

C36_InstallationCreated ==
    /\ []((/\ wh.pc = "done" /\ wh.verified /\ wh.error = ""
           /\ wh.event = "installation" /\ wh.body.action = "created") =>
            /\ wh.status = 200
            /\ getAppConfig(config[wh.app]) # <<>>
            /\ LET cfg == getAppConfig(config[wh.app])[1]
               IN  /\ cfg.installationId = wh.body.inst_id
                   /\ cfg.repositories = wh.body.repos
                   /\ cfg.owner = wh.body.account)
    /\ [][(wh.pc = "update" /\ wh' # wh) =>
            /\ wh'.pc = "done" /\ wh'.status = 200
            /\ getAppConfig(config'[wh.app]) =
                  <<[getAppConfig(config[wh.app])[1] EXCEPT
                        !.installationId = wh.body.inst_id,
                        !.repositories = wh.body.repos,
                        !.owner = wh.body.account]>>]_vars

\* C36 witness: an installation with the id i2, two repositories and a user
\* account was stored, and the request was answered 200
C36_Witness ==
    /\ wh.pc = "done" /\ wh.verified /\ wh.status = 200
    /\ wh.event = "installation" /\ wh.body.action = "created"
    /\ getAppConfig(config[WhApp])[1].installationId = "i2"
    /\ getAppConfig(config[WhApp])[1].repositories = <<Repo2, Repo1>>
    /\ getAppConfig(config[WhApp])[1].owner.login = "hubber"
    /\ getAppConfig(config[WhApp])[1].createdAt = toISOString(0)

\* The partitions with other values of the private key and the webhook
\* secret in every stored config
WithCredentials(tables, privateKey, webhookSecret) ==
    [a \in DOMAIN tables |->
        [i \in DOMAIN tables[a] |->
            [tables[a][i] EXCEPT !.privateKey = privateKey,
                                 !.webhookSecret = webhookSecret]]]

\* The values a stored private key or webhook secret may have, the empty
\* string among them
CredentialValues ==
    PrivateKeyBlobs \cup WebhookSecretBlobs({<<1>>, <<3>>}) \cup {<<>>}

\* C37: the response of handleGitHubStatus does not depend on the values of
\* the stored private key and webhook secret beyond whether both are there:
\* partitions that differ in these two values only give the same response,
\* and neither value is in the response.
C37_StatusIndependentOfSecrets ==
    /\ [](\A appId \in Apps \cup {NULL} :
            \A pk \in CredentialValues, ws \in CredentialValues :
                handleGitHubStatus(appId, WithCredentials(config, pk, ws)) =
                    IF pk # <<>> /\ ws # <<>>
                    THEN handleGitHubStatus(appId, config)
                    ELSE handleGitHubStatus(appId, WithCredentials(config, <<>>, <<>>)))
    /\ [](gst.status = 200 =>
            /\ DOMAIN gst.body[1] \cap {"privateKey", "webhookSecret"} = {}
            /\ gst.body[1].hasCredentials \in BOOLEAN)
    /\ [][gst' # gst =>
            \A pk \in CredentialValues \ {<<>>}, ws \in CredentialValues \ {<<>>} :
                gst' = handleGitHubStatus(gst'.app, WithCredentials(config, pk, ws))]_vars

\* C37 witness: the status of an installed app was given after the app had
\* been set up with the second webhook secret under the second nonce
C37_Witness ==
    /\ gst.status = 200 /\ gst.app = "101"
    /\ gst.body[1].hasCredentials
    /\ "installationId" \in DOMAIN gst.body[1]
    /\ getAppConfig(config["101"])[1].webhookSecret = encrypt(<<3>>, [i \in 1..IvLen |-> 200])

\* C38: every token getInstallationToken returns was issued for the
\* installation id that the config of the tenant holds when the call returns:
\* once updateInstallation or a store has changed the installation id, a
\* token obtained for the id before is not returned any more.
C38_TokenOfStoredInstallation ==
    [][\A c \in Callers :
        (calls[c].pc # "done" /\ calls'[c].pc = "done" /\ calls'[c].result # NoToken) =>
            /\ getAppConfig(config'[calls'[c].app]) # <<>>
            /\ calls'[c].result.inst =
                  getAppConfig(config'[calls'[c].app])[1].installationId]_vars

\* The calls a request has made, by name
Made(w, effect) == \E k \in 1..Len(w.effects) : w.effects[k] = effect

\* C39: for a verified issues event with action opened, /process-issue is
\* dispatched only after the call for the first comment has completed without
\* an error; when the first comment, the lookup of the token or of the
\* deployment secret, or the dispatch fails (a response of containerFetch
\* that is not 2xx included), an error comment is attempted; and in every
\* case the handler sends /webhook to the container of the repository and
\* answers 200.
C39_IssueOpenedFlow ==
    /\ []((wh.event = "issues" /\ wh.body.action = "opened" /\ wh.verified) =>
            /\ wh.pc \in {"route", "routewait", "claudekey", "dispatch"} =>
                  Made(wh, "comment")
            /\ Made(wh, "process-issue") => Made(wh, "comment")
            /\ wh.pc = "done" =>
                  /\ wh.status = 200
                  /\ wh.effects[Len(wh.effects)] = "container-webhook")
    /\ [][(wh.event = "issues" /\ wh.body.action = "opened" /\ wh.verified
                /\ wh' # wh /\ wh'.n = wh.n) =>
            /\ (wh.pc = "ackwait" /\ calls[WhCaller].result = NoToken) => wh'.pc = "err"
            /\ (wh.pc = "ackpost" /\ wh'.pc # "route") => wh'.pc = "err"
            /\ (wh.pc = "routewait" /\ calls[WhCaller].result = NoToken) => wh'.pc = "err"
            /\ (wh.pc = "claudekey" /\ getDecryptedClaudeApiKey(claude) = <<>>) =>
                  wh'.pc = "err"
            /\ (wh.pc = "dispatch" /\ wh'.pc # "forward") => wh'.pc = "err"
            /\ wh.pc = "err" => wh'.pc = "errwait"
            /\ wh'.pc = "done" => wh.pc = "forward"]_vars

====
